---- MODULE Spec2Model ----
(***************************************************************************)
(* Map poster generator: the content cache, the geocoder with retry, the   *)
(* street-network and feature fetches and the job pipeline, in the two     *)
(* variants the repository holds:                                          *)
(*   "step" - backend/src/posters/process_poster_creation_step.py, the     *)
(*            asynchronous job handler;                                    *)
(*   "cli"  - backend/create_map_poster.py, the standalone script.         *)
(* Handler jobs share one server process and interleave at their await     *)
(* points only; every cli job is a process of its own.  All jobs share one *)
(* cache directory.                                                        *)
(***************************************************************************)
EXTENDS Integers, Sequences, FiniteSets, TLC

VARIABLES
    input,      \* input[j]: the job's input data (handler input_data / argv)
    pc,         \* pc[j]: where job j stands
    loc,        \* loc[j]: the job's local variables
    loop,       \* the handler job that holds the server's event loop, 0 if none
    cache,      \* cache[key]: content of the cache file of that key
    emitted,    \* emitted[j]: the (status, progress) pairs sent to the progress sink
    figs,       \* figs[p]: pyplot's open figures of process p, the current one last
    files,      \* files[j]: the poster and thumbnail files written for job j
    db,         \* db[j]: number of records update_poster_db has written for job j
    hist,       \* hist[j]: the record of the fetch job j is in (reads, calls, sleeps)
    faults,     \* failures of the environment so far (provider, disk, renderer)
    sequential, \* TRUE: the jobs are run one after the other
    kq,         \* two cache requests and the keys built for them
    uq,         \* a job input with a map URL, on its way to the fetch point and radius
    rq,         \* a render_poster call: its layers, and what has been drawn of them
    gq,         \* the two render_poster calls of a job on one graph: objects and references
    tq          \* a theme name, a font folder and a point, and the texts made of them

vars == <<input, pc, loc, loop, cache, emitted, figs, files, db, hist, faults,
          sequential, kq, uq, rq, gq, tq>>

Jobs == {1, 2}

\* At most this many failures of the environment are injected in one run: a
\* provider fetch that raises, a cache write that fails, a render or a save that
\* raises.  (Geocoder failures are not counted: max_retries bounds them.)
MaxFaults == 1

None == [t |-> "None"]

\* ------------------------------------------------------------------ values

\* Coordinates are Python floats; the model keeps them in units of 1/10000 degree.
Paris  == <<488566, 23522>>
Sydney == <<-338688, 1512093>>
Points == {Paris, Sydney}

Abs(x) == IF x < 0 THEN -x ELSE x

\* The digits of a fraction f/10000 as repr() prints them: no trailing zeros,
\* at least one digit.
FracDigits(f) ==
    LET d1 == ToString(f \div 1000)
        d2 == ToString((f \div 100) % 10)
        d3 == ToString((f \div 10) % 10)
        d4 == ToString(f % 10)
    IN  IF f % 10 # 0 THEN d1 \o d2 \o d3 \o d4
        ELSE IF f % 100 # 0 THEN d1 \o d2 \o d3
        ELSE IF f % 1000 # 0 THEN d1 \o d2
        ELSE d1

\* str() of a float, as the f-strings that build the cache keys apply it.
FloatStr(x) ==
    (IF x < 0 THEN "-" ELSE "") \o ToString(Abs(x) \div 10000) \o "."
        \o FracDigits(Abs(x) % 10000)

\* ------------------------------------------------------------------ cache keys

\* f"{city},{country}"
coords_key(city, country) == city \o "," \o country

\* f"graph_{lat}_{lon}_{dist}"
graph_key(point, dist) ==
    "graph_" \o FloatStr(point[1]) \o "_" \o FloatStr(point[2]) \o "_" \o ToString(dist)

\* "_".join(keys) over a sequence of strings
RECURSIVE Join(_, _)
Join(sep, s) ==
    IF Len(s) = 0 THEN ""
    ELSE IF Len(s) = 1 THEN s[1]
    ELSE s[1] \o sep \o Join(sep, Tail(s))

\* tags is a dict in insertion order: a sequence of <<key, value>> pairs.
TagKeys(tags) == [i \in 1..Len(tags) |-> tags[i][1]]

ParkTags  == << <<"leisure", "park">>, <<"landuse", "grass">> >>
WaterTags == << <<"natural", "water">>, <<"waterway", "riverbank">> >>

\* cli fetch_features: f"{name}_{lat}_{lon}_{dist}_{tag_str}", tag_str the joined
\* tag KEYS.
features_key(point, dist, tags, name) ==
    name \o "_" \o FloatStr(point[1]) \o "_" \o FloatStr(point[2]) \o "_"
        \o ToString(dist) \o "_" \o Join("_", TagKeys(tags))

\* handler: f"parks_{lat}_{lon}_{distance}" and f"water_{lat}_{lon}_{distance}"
step_features_key(point, dist, name) ==
    name \o "_" \o FloatStr(point[1]) \o "_" \o FloatStr(point[2]) \o "_" \o ToString(dist)

\* ------------------------------------------------------------------ inputs

Variants == {"step", "cli"}
NoPoint  == <<>>

\* input_data.get("distance", 29000) / argparse default
DefaultDistance == 29000

Inputs ==
    [variant : Variants, city : {"Paris"}, country : {"France"},
     latlon : {NoPoint, Paris}, distance : {DefaultDistance}]

IsStep(j) == input[j].variant = "step"

\* The process a job runs in: the server (0) for handler jobs, its own for a
\* cli job.
Proc(j) == IF IsStep(j) THEN 0 ELSE j
Procs == {0} \cup Jobs

Kinds == {"coords", "graph", "parks", "water"}

\* ------------------------------------------------------------------ cache files

Absent  == [t |-> "absent"]    \* no file
Partial == [t |-> "partial"]   \* truncated by open("wb"), the dump not finished
Torn    == [t |-> "torn"]      \* bytes of two overlapping writers

CoordsPayload(p)      == [t |-> "coords", point |-> p, dist |-> 0]
DataPayload(k, p, d)  == [t |-> k, point |-> p, dist |-> d]

\* pickle.load on the file's content: a truncated or mixed stream has no
\* STOP opcode where the reader expects it, and the load raises.
pickle_load(c) ==
    IF c \in {Partial, Torn} THEN [r |-> "raise", v |-> None]
    ELSE [r |-> "ok", v |-> c]

\* handler: exists() / try: pickle.load / except Exception: return None
cache_get(c) ==
    IF c = Absent THEN [r |-> "ok", v |-> None]
    ELSE IF pickle_load(c).r = "raise" THEN [r |-> "ok", v |-> None]
    ELSE pickle_load(c)

\* cli: exists() / pickle.load, no handler around it
cli_cache_get(c) ==
    IF c = Absent THEN [r |-> "ok", v |-> None]
    ELSE pickle_load(c)

CacheGet(variant, c) == IF variant = "step" THEN cache_get(c) ELSE cli_cache_get(c)

\* What open("wb") and pickle.dump can raise.
OpenErrors == {"OSError"}
DumpErrors == {"PickleError", "OSError", "TypeError"}

\* handler cache_set: except Exception -> CacheError
cache_set(e) == IF e = "ok" THEN "ok" ELSE "CacheError"

\* cli cache_set: except pickle.PickleError / except (OSError, IOError) -> CacheError;
\* anything else leaves cache_set as it is.
cli_cache_set(e) ==
    IF e = "ok" THEN "ok"
    ELSE IF e \in {"PickleError", "OSError"} THEN "CacheError"
    ELSE e

CacheSet(variant, e) == IF variant = "step" THEN cache_set(e) ELSE cli_cache_set(e)

Tags(k) == IF k = "parks" THEN ParkTags ELSE WaterTags

\* The key each call site builds for its request.
KeyFor(variant, k, city, country, point, dist, tags) ==
    IF k = "coords" THEN coords_key(city, country)
    ELSE IF k = "graph" THEN graph_key(point, dist)
    ELSE IF variant = "step" THEN step_features_key(point, dist, k)
    ELSE features_key(point, dist, tags, k)

KeyOf(j, k) ==
    KeyFor(input[j].variant, k, input[j].city, input[j].country,
           loc[j].point, loc[j].dist, Tags(k))

AllKeys ==
    {KeyFor(i.variant, "coords", i.city, i.country, NoPoint, 0, <<>>) : i \in Inputs}
    \cup {KeyFor(i.variant, k, i.city, i.country, p, i.distance, Tags(k)) :
            i \in Inputs, k \in Kinds \ {"coords"}, p \in Points}

\* ------------------------------------------------------------------ state

\* max_retries = 3
max_retries == 3

\* A geocoder call with no pause in front of it.
no_delay == 1 - 1

\* time.sleep(1) before the first geocoder call
RateLimitDelay == 1

\* wait_time = 2 * (attempt + 1)
wait_time(attempt) == 2 * (attempt + 1)

InitLoc(i) ==
    [point |-> NoPoint, dist |-> i.distance, kind |-> "coords",
     attempt |-> 0, lastSleep |-> 0, data |-> None,
     G |-> None, parks |-> None, water |-> None, fig |-> None,
     status |-> "queued", err |-> "none",
     via |-> "none",       \* where the point came from: input, cache, provider
     stored |-> FALSE,     \* the geocoded point was written to the cache
     renders |-> 0,        \* render_poster calls so far
     after |-> {}]         \* the jobs that had ended when this one started

\* hist[j] is the record of the fetch the job is in, or of its last one; the
\* next fetch starts a new record.
NewFetch(k) ==
    [kind   |-> k,
     read   |-> "none",     \* outcome of the cache read: hit, miss, raise
     during |-> FALSE,      \* the read fell into another job's write of the key
     calls  |-> 0,          \* provider calls made
     set    |-> "none",     \* outcome of the cache write: ok, failed
     fresh  |-> None,       \* what the provider returned
     notFound |-> 0,        \* the first geocoder call that answered "no location"
     waits  |-> <<>>]       \* every time.sleep(seconds) made in the fetch

InitHist == NewFetch("coords")

NoFiles == [poster |-> None, thumb |-> None]

\* No key request is under way.
NoKeys == [a |-> None, b |-> None, ka |-> "", kb |-> ""]

Construct ==
    /\ input \in [Jobs -> Inputs]
    /\ pc = [j \in Jobs |-> "start"]
    /\ loc = [j \in Jobs |-> InitLoc(input[j])]
    /\ loop = 0
    /\ cache = [k \in AllKeys |-> Absent]
    /\ emitted = [j \in Jobs |-> <<>>]
    /\ figs = [p \in Procs |-> <<>>]
    /\ files = [j \in Jobs |-> NoFiles]
    /\ db = [j \in Jobs |-> 0]
    /\ hist = [j \in Jobs |-> InitHist]
    /\ faults = 0
    /\ kq = NoKeys
    /\ uq = None
    /\ rq = None
    /\ gq = None
    /\ tq = None

\* Two jobs, run at the same time.
Init == Construct /\ sequential = FALSE

\* Two jobs, run one after the other.
InitSeq == Construct /\ sequential = TRUE

\* The failures the environment may still produce.
Failures(S) == IF faults < MaxFaults THEN S ELSE {}

\* The outcome e of an environment call is counted when it is a failure.
Count(e) == faults' = IF e = "ok" THEN faults ELSE faults + 1

\* A handler job runs while it holds the event loop; it gives the loop up at an
\* await.  A cli job is a process of its own and runs whenever it likes.
Run(j) == IsStep(j) => loop \in {0, j}

\* The job's step: new position, locals, history and emissions; the handler
\* awaits at the end of the step iff `yield`.
Step(j, npc, l, h, em, yield) ==
    /\ pc' = [pc EXCEPT ![j] = npc]
    /\ loc' = [loc EXCEPT ![j] = l]
    /\ hist' = [hist EXCEPT ![j] = h]
    /\ emitted' = [emitted EXCEPT ![j] = em]
    /\ loop' = IF IsStep(j) THEN (IF yield THEN 0 ELSE j) ELSE loop

\* await update_progress(context, job_id, status, message, progress): the cli
\* has no progress sink.
update_progress(j, status, progress) ==
    IF IsStep(j) THEN Append(emitted[j], <<status, progress>>) ELSE emitted[j]

\* except Exception as e: ... await update_progress(..., "error", ..., 0) in the
\* handler; print and sys.exit(1) in the cli.
Fail(j, cause, l, h) ==
    Step(j, "done", [l EXCEPT !.status = "error", !.err = cause], h,
         update_progress(j, "error", 0), TRUE)

\* A pipeline that reports the water download before the parks download.
Milestone_water_first(k) ==
    CASE k = "coords" -> [status |-> "downloading_streets", progress |-> 15,
                          pc |-> "get", kind |-> "graph"]
      [] k = "graph"  -> [status |-> "downloading_water", progress |-> 55,
                          pc |-> "get", kind |-> "parks"]
      [] k = "parks"  -> [status |-> "downloading_parks", progress |-> 35,
                          pc |-> "get", kind |-> "water"]
      [] k = "water"  -> [status |-> "rendering", progress |-> 70,
                          pc |-> "render", kind |-> "water"]

\* The milestone that follows each fetch.
Milestone(k) ==
    CASE k = "coords" -> [status |-> "downloading_streets", progress |-> 15,
                          pc |-> "get", kind |-> "graph"]
      [] k = "graph"  -> [status |-> "downloading_parks", progress |-> 35,
                          pc |-> "get", kind |-> "parks"]
      [] k = "parks"  -> [status |-> "downloading_water", progress |-> 55,
                          pc |-> "get", kind |-> "water"]
      [] k = "water"  -> [status |-> "rendering", progress |-> 70,
                          pc |-> "render", kind |-> "water"]

\* The job's variable that holds the result of fetch k.
Assign(l, k, v) ==
    CASE k = "coords" -> [l EXCEPT !.point = v.point]
      [] k = "graph"  -> [l EXCEPT !.G = v]
      [] k = "parks"  -> [l EXCEPT !.parks = v]
      [] k = "water"  -> [l EXCEPT !.water = v]

\* Fetch k has ended with value v: the pipeline goes on to the next milestone.
Continue(j, k, v, l, h) ==
    LET m == Milestone(k)
    IN  Step(j, m.pc,
             [Assign(l, k, v) EXCEPT !.kind = m.kind, !.data = None,
                                     !.lastSleep = 0, !.attempt = 0],
             h, update_progress(j, m.status, m.progress), TRUE)

\* ------------------------------------------------------------------ the job

Others(j) == Jobs \ {j}

\* Another job has the file of `key` open for writing.
MidWrite(j, key) ==
    \E o \in Others(j) : pc[o] = "set_dump" /\ KeyOf(o, loc[o].kind) = key

\* handler entry: the first milestone.  cli: the script starts.
Start(j) ==
    /\ pc[j] = "start"
    /\ Run(j)
    /\ sequential => \A o \in Others(j) : pc[o] \in {"start", "done"}
    /\ Step(j, "resolve",
            [loc[j] EXCEPT !.status = "running",
                           !.after = {o \in Jobs : pc[o] = "done"}],
            hist[j], update_progress(j, "fetching_data", 5), TRUE)
    /\ UNCHANGED <<input, cache, figs, files, db, faults, sequential, kq, uq, rq, gq, tq>>

\* if lat is not None and lon is not None: point = (lat, lon)
\* else: point = get_coordinates(city, country)
Resolve(j) ==
    /\ pc[j] = "resolve"
    /\ Run(j)
    /\ IF input[j].latlon # NoPoint
       THEN Continue(j, "coords", [point |-> input[j].latlon],
                     [loc[j] EXCEPT !.via = "input"], hist[j])
       ELSE Step(j, "gc_get", loc[j], hist[j], emitted[j], FALSE)
    /\ UNCHANGED <<input, cache, figs, files, db, faults, sequential, kq, uq, rq, gq, tq>>

\* A get_coordinates that ignores what cache_get returned.
Truthy_never(v) == FALSE

\* `if cached:` - the truth value of what cache_get returned
Truthy(v) == v # None

\* get_coordinates: cached = cache_get(coords); if cached: return cached
GcCacheGet(j) ==
    /\ pc[j] = "gc_get"
    /\ Run(j)
    /\ LET key == KeyOf(j, "coords")
           r == CacheGet(input[j].variant, cache[key])
           h == [NewFetch("coords") EXCEPT
                    !.during = MidWrite(j, key),
                    !.read = IF r.r = "raise" THEN "raise"
                             ELSE IF r.v # None THEN "hit" ELSE "miss"]
       IN  IF r.r = "raise" THEN Fail(j, "cache_read", loc[j], h)
           ELSE IF Truthy(r.v)
           THEN Continue(j, "coords", r.v, [loc[j] EXCEPT !.via = "cache"], h)
           ELSE Step(j, "gc_delay", loc[j], h, emitted[j], FALSE)
    /\ UNCHANGED <<input, cache, figs, files, db, faults, sequential, kq, uq, rq, gq, tq>>

\* time.sleep(1), then the retry loop is entered with attempt = 0
GcDelay(j) ==
    /\ pc[j] = "gc_delay"
    /\ Run(j)
    /\ Step(j, "gc_try",
            [loc[j] EXCEPT !.lastSleep = RateLimitDelay, !.attempt = 0],
            [hist[j] EXCEPT !.waits = Append(@, RateLimitDelay)], emitted[j], FALSE)
    /\ UNCHANGED <<input, cache, figs, files, db, faults, sequential, kq, uq, rq, gq, tq>>

\* What geolocator.geocode can do: a location, None, or an exception.
GeocodeOutcomes ==
    {[r |-> "location", point |-> Paris],
     [r |-> "none", point |-> NoPoint], [r |-> "raise", point |-> NoPoint]}

\* A retry loop that also waits and goes round after the last attempt.
retry_always(attempt) == attempt < max_retries

\* The handler's loop body fails (the raise ValueError for None is inside the
\* try, so `except Exception` takes it like a timeout): retry while
\* attempt < max_retries - 1, else raise.
retry_after_failure(attempt) == attempt < max_retries - 1

\* location = geolocator.geocode(...)
GcGeocode(j) ==
    /\ pc[j] = "gc_try"
    /\ Run(j)
    /\ \E out \in GeocodeOutcomes :
         LET h == [hist[j] EXCEPT !.calls = @ + 1,
                                  !.notFound = IF @ = 0 /\ out.r = "none"
                                               THEN hist[j].calls + 1 ELSE @,
                                  !.fresh = IF out.r = "location"
                                            THEN CoordsPayload(out.point) ELSE @]
             l == [loc[j] EXCEPT !.lastSleep = 0]
         IN  IF out.r = "location"
             THEN Step(j, "set_open",
                       [l EXCEPT !.kind = "coords", !.via = "provider",
                                 !.data = CoordsPayload(out.point)],
                       h, emitted[j], FALSE)
             ELSE IF IsStep(j) /\ retry_after_failure(loc[j].attempt)
             THEN Step(j, "gc_backoff", l, h, emitted[j], FALSE)
             ELSE Fail(j, "geocode", l, h)
    /\ UNCHANGED <<input, cache, figs, files, db, faults, sequential, kq, uq, rq, gq, tq>>

\* time.sleep(wait_time), and the for loop takes the next attempt; a loop that
\* runs out returns None, and the handler's `lat, lon = point` raises.
GcBackoff(j) ==
    /\ pc[j] = "gc_backoff"
    /\ Run(j)
    /\ LET w == wait_time(loc[j].attempt)
           l == [loc[j] EXCEPT !.lastSleep = w, !.attempt = @ + 1]
           h == [hist[j] EXCEPT !.waits = Append(@, w)]
       IN  IF l.attempt < max_retries
           THEN Step(j, "gc_try", l, h, emitted[j], FALSE)
           ELSE Fail(j, "no_point", l, h)
    /\ UNCHANGED <<input, cache, figs, files, db, faults, sequential, kq, uq, rq, gq, tq>>

\* A failed cache write as the caller sees it.  CacheError is absorbed
\* (`except CacheError: pass` / `print(e)`) and the fetched data returned.  Any
\* other exception leaves the cli's cache_set: in fetch_graph and fetch_features
\* the enclosing `except Exception` takes it and returns None, in the cli's
\* get_coordinates it reaches the script's top level.
AfterWriteError(j, k, raised, l, h) ==
    IF raised = "CacheError" THEN Continue(j, k, l.data, l, h)
    ELSE IF k \in {"coords", "graph"} THEN Fail(j, "cache_write", l, h)
    ELSE Continue(j, k, None, l, h)

\* cache_set: path.open("wb") truncates the file
SetOpen(j) ==
    /\ pc[j] = "set_open"
    /\ Run(j)
    /\ LET k == loc[j].kind
           key == KeyOf(j, k)
       IN  \E e \in {"ok"} \cup Failures(OpenErrors) :
             /\ Count(e)
             /\ IF e = "ok"
                THEN /\ cache' = [cache EXCEPT ![key] =
                                    IF MidWrite(j, key) THEN Torn ELSE Partial]
                     /\ Step(j, "set_dump", loc[j], hist[j], emitted[j], FALSE)
                ELSE /\ cache' = cache
                     /\ AfterWriteError(j, k, CacheSet(input[j].variant, e), loc[j],
                                        [hist[j] EXCEPT !.set = "failed"])
    /\ UNCHANGED <<input, figs, files, db, sequential, kq, uq, rq, gq, tq>>

\* cache_set: pickle.dump(obj, f) and the close of the file
SetDump(j) ==
    /\ pc[j] = "set_dump"
    /\ Run(j)
    /\ LET k == loc[j].kind
           key == KeyOf(j, k)
       IN  \E e \in {"ok"} \cup Failures(DumpErrors) :
             /\ Count(e)
             /\ IF e = "ok"
                THEN \E c \in (IF cache[key] = Partial THEN {loc[j].data}
                               ELSE {loc[j].data, Torn}) :
                       /\ cache' = [cache EXCEPT ![key] = c]
                       /\ Continue(j, k, loc[j].data,
                                   [loc[j] EXCEPT !.stored =
                                       @ \/ (k = "coords" /\ c = loc[j].data)],
                                   [hist[j] EXCEPT !.set = "ok"])
                ELSE /\ cache' = cache
                     /\ AfterWriteError(j, k, CacheSet(input[j].variant, e), loc[j],
                                        [hist[j] EXCEPT !.set = "failed"])
    /\ UNCHANGED <<input, figs, files, db, sequential, kq, uq, rq, gq, tq>>

\* A fetch that goes to the provider whatever cache_get returned.
is_cached_never(v) == FALSE

\* `if G is None:` / `if cached is not None:` - the fetches test for None
is_cached(v) == v # None

\* G = cache_get(graph_key), parks = cache_get(parks_key), water = cache_get(water_key)
FetchCacheGet(j) ==
    /\ pc[j] = "get"
    /\ Run(j)
    /\ LET k == loc[j].kind
           key == KeyOf(j, k)
           r == CacheGet(input[j].variant, cache[key])
           h == [NewFetch(k) EXCEPT
                    !.during = MidWrite(j, key),
                    !.read = IF r.r = "raise" THEN "raise"
                             ELSE IF r.v # None THEN "hit" ELSE "miss"]
       IN  IF r.r = "raise" THEN Fail(j, "cache_read", loc[j], h)
           ELSE IF is_cached(r.v) THEN Continue(j, k, r.v, loc[j], h)
           ELSE Step(j, "call", loc[j], h, emitted[j], FALSE)
    /\ UNCHANGED <<input, cache, figs, files, db, faults, sequential, kq, uq, rq, gq, tq>>

\* A pipeline in which every failed fetch ends the job.
fetch_always_fatal(k) == TRUE

\* A handler that treats the street network like an optional layer.
fetch_never_fatal(k) == FALSE

\* The street network is mandatory, a feature layer is not.
fetch_is_fatal(k) == k = "graph"

\* ox.graph_from_point / ox.features_from_point, and the post-fetch sleep
ProviderFetch(j) ==
    /\ pc[j] = "call"
    /\ Run(j)
    /\ LET k == loc[j].kind
           data == DataPayload(k, loc[j].point, loc[j].dist)
       IN  \E out \in {"ok"} \cup Failures({"raise"}) :
             LET h == [hist[j] EXCEPT !.calls = @ + 1,
                                      !.fresh = IF out = "ok" THEN data ELSE @]
             IN  /\ Count(out)
                 /\ IF out = "ok"
                    THEN Step(j, "set_open", [loc[j] EXCEPT !.data = data], h,
                              emitted[j], FALSE)
                    ELSE IF fetch_is_fatal(k) THEN Fail(j, "fetch_graph", loc[j], h)
                    ELSE Continue(j, k, None, loc[j], h)
    /\ UNCHANGED <<input, cache, figs, files, db, sequential, kq, uq, rq, gq, tq>>

\* ------------------------------------------------------------------ pyplot

\* pyplot keeps the open figures of the process; the one made or used last is
\* the current figure.
Figure(j, thumb) == [job |-> j, thumb |-> thumb]
Blank == [job |-> 0, thumb |-> FALSE]

\* plt.subplots(): a new figure, which becomes the current one
plt_subplots(open, fig) == Append(open, fig)

\* plt.gcf(): the current figure; with none open, pyplot makes an empty one
plt_gcf(open) == IF open = <<>> THEN Blank ELSE open[Len(open)]

\* plt.close(fig)
plt_close(open, fig) == SelectSeq(open, LAMBDA f : f # fig)

\* plt.savefig(path, ...): pyplot's savefig writes the CURRENT figure
plt_savefig(open) == plt_gcf(open)

\* render_poster(...): projection, then plt.subplots, then the layers; it
\* returns the figure.  It can raise before the figure exists (projection) or
\* after (plotting), and then the figure stays open.
RenderPoster(j) ==
    /\ pc[j] = "render"
    /\ Run(j)
    /\ \E out \in {"ok"} \cup Failures({"raise_early", "raise_late"}) :
         LET fig == Figure(j, FALSE)
             l == [loc[j] EXCEPT !.renders = @ + 1]
         IN  /\ Count(out)
             /\ figs' = [figs EXCEPT ![Proc(j)] =
                            IF out = "raise_early" THEN @ ELSE plt_subplots(@, fig)]
             /\ IF out = "ok"
                THEN Step(j, "save", [l EXCEPT !.fig = fig], hist[j],
                          update_progress(j, "saving", 90), TRUE)
                ELSE Fail(j, "render", l, hist[j])
    /\ UNCHANGED <<input, cache, files, db, sequential, kq, uq, rq, gq, tq>>

\* A handler that records the job as soon as the poster file is written.
update_poster_db_before_thumbnail(out) == IF out \in {"ok", "thumbnail"} THEN 1 ELSE 0

\* The records update_poster_db has written when the saving stage ends with
\* `out`: the call comes after the thumbnail is saved, so a failed thumbnail
\* never reaches it, and a failure inside it is swallowed and writes nothing.
update_poster_db(out) == IF out = "ok" THEN 1 ELSE 0

\* handler: plt.savefig(output_file); plt.close(fig); the thumbnail is
\* rendered, saved and closed; update_poster_db, which swallows its own
\* failure; the "completed" milestone.
\* cli: plt.savefig(output_file); plt.close().
SavePoster(j) ==
    /\ pc[j] = "save"
    /\ Run(j)
    /\ \E out \in {"ok"} \cup Failures(IF IsStep(j) THEN {"savefig", "thumbnail", "db"}
                                        ELSE {"savefig"}) :
         LET open0 == figs[Proc(j)]
             poster == plt_savefig(open0)
             open1 == IF IsStep(j) THEN plt_close(open0, loc[j].fig)
                      ELSE plt_close(open0, plt_gcf(open0))
             figT == Figure(j, TRUE)
             open2 == plt_subplots(open1, figT)
             thumb == plt_savefig(open2)
             open3 == plt_close(open2, figT)
         IN  IF out = "savefig"
             THEN /\ Count(out)
                  /\ Fail(j, "save", loc[j], hist[j])
                  /\ UNCHANGED <<figs, files, db>>
             ELSE IF ~IsStep(j)
             THEN /\ Count(out)
                  /\ files' = [files EXCEPT ![j].poster = poster]
                  /\ figs' = [figs EXCEPT ![Proc(j)] = open1]
                  /\ Step(j, "done", [loc[j] EXCEPT !.status = "completed"],
                          hist[j], emitted[j], TRUE)
                  /\ db' = db
             ELSE IF out = "thumbnail"
             THEN /\ Count(out)
                  /\ files' = [files EXCEPT ![j].poster = poster]
                  /\ figs' = [figs EXCEPT ![Proc(j)] = open1]
                  /\ Fail(j, "thumbnail", [loc[j] EXCEPT !.renders = @ + 1], hist[j])
                  /\ db' = [db EXCEPT ![j] = @ + update_poster_db(out)]
             ELSE /\ Count(out)
                  /\ files' = [files EXCEPT ![j] = [poster |-> poster, thumb |-> thumb]]
                  /\ figs' = [figs EXCEPT ![Proc(j)] = open3]
                  /\ db' = [db EXCEPT ![j] = @ + update_poster_db(out)]
                  /\ Step(j, "done",
                          [loc[j] EXCEPT !.status = "completed", !.renders = @ + 1],
                          hist[j], update_progress(j, "completed", 100), TRUE)
    /\ UNCHANGED <<input, cache, sequential, kq, uq, rq, gq, tq>>

handler(j) ==
    \/ Start(j)
    \/ Resolve(j)
    \/ GcCacheGet(j)
    \/ GcDelay(j)
    \/ GcGeocode(j)
    \/ GcBackoff(j)
    \/ SetOpen(j)
    \/ SetDump(j)
    \/ FetchCacheGet(j)
    \/ ProviderFetch(j)
    \/ RenderPoster(j)
    \/ SavePoster(j)

Next == \E j \in Jobs : handler(j)

Spec == Init /\ [][Next]_vars

SpecSeq == InitSeq /\ [][Next]_vars

\* The interpreter does not stop: a job that can take a step takes one.
SpecSeqFair == InitSeq /\ [][Next]_vars /\ WF_vars(Next)

\* ------------------------------------------------------------------ key requests

\* The requests a cache key is built for: a geocode request (city, country), a
\* graph request (point, dist), a feature request (point, dist, tags, name).
Cities    == {"Paris", "Paris,Texas"}
Countries == {"USA", "Texas,USA"}
Distances == {DefaultDistance, 4251}
GardenTags == << <<"leisure", "garden">>, <<"landuse", "grass">> >>

Request(type, variant, city, country, point, dist, name, tags) ==
    [type |-> type, variant |-> variant, city |-> city, country |-> country,
     point |-> point, dist |-> dist, name |-> name, tags |-> tags]

Requests ==
    {Request("coords", "step", c, n, NoPoint, 0, "", <<>>) :
        c \in Cities, n \in Countries}
    \cup {Request("graph", "step", "", "", p, d, "", <<>>) :
        p \in Points, d \in Distances}
    \cup {Request("features", "step", "", "", p, d, k, Tags(k)) :
        p \in Points, d \in Distances, k \in {"parks", "water"}}
    \cup UNION {{Request("features", "cli", "", "", p, d, k, t) :
                    p \in Points, d \in Distances, k \in {"parks", "water"}} :
                t \in {ParkTags, WaterTags, GardenTags}}

\* The fields of a request that the claim of distinct keys is about.
Fields(r) == <<r.type, r.city, r.country, r.point, r.dist, r.name, r.tags>>

request_key(r) ==
    KeyFor(r.variant, IF r.type = "features" THEN r.name ELSE r.type,
           r.city, r.country, r.point, r.dist, r.tags)

InitKey ==
    /\ input = [j \in Jobs |-> CHOOSE i \in Inputs : TRUE]
    /\ pc = [j \in Jobs |-> "done"]
    /\ loc = [j \in Jobs |-> InitLoc(input[j])]
    /\ loop = 0
    /\ cache = [k \in AllKeys |-> Absent]
    /\ emitted = [j \in Jobs |-> <<>>]
    /\ figs = [p \in Procs |-> <<>>]
    /\ files = [j \in Jobs |-> NoFiles]
    /\ db = [j \in Jobs |-> 0]
    /\ hist = [j \in Jobs |-> InitHist]
    /\ faults = 0
    /\ sequential = TRUE
    /\ uq = None
    /\ rq = None
    /\ gq = None
    /\ tq = None
    /\ \E a, b \in Requests : kq = [NoKeys EXCEPT !.a = a, !.b = b]

\* The key of the first request is built.
BuildKeyA ==
    /\ kq.a # None
    /\ kq.ka = ""
    /\ kq' = [kq EXCEPT !.ka = request_key(kq.a)]
    /\ UNCHANGED <<input, pc, loc, loop, cache, emitted, figs, files, db, hist,
                   faults, sequential, uq, rq, gq, tq>>

\* The key of the second request is built.
BuildKeyB ==
    /\ kq.b # None
    /\ kq.kb = ""
    /\ kq' = [kq EXCEPT !.kb = request_key(kq.b)]
    /\ UNCHANGED <<input, pc, loc, loop, cache, emitted, figs, files, db, hist,
                   faults, sequential, uq, rq, gq, tq>>

NextKey == BuildKeyA \/ BuildKeyB

\* Two requests, their keys built in either order.
SpecKey == InitKey /\ [][NextKey]_vars

\* ------------------------------------------------------------------ render_poster

\* A feature layer handed to render_poster: None, or a GeoDataFrame that is
\* empty or not, in geographic coordinates as the provider delivers it.
Gdf(empty) == [t |-> "gdf", empty |-> empty, crs |-> "latlon", rotated |-> FALSE]
LayersIn == {None, Gdf(TRUE), Gdf(FALSE)}
LayerNames == {"water", "parks"}

\* The calls render_poster makes on a layer; each of them can raise.
LayerOps == {"to_crs", "rotate", "plot"}

\* The "highway" entry of an edge's data: missing, a string, or a list of strings.
NoTag == [t |-> "missing", v |-> <<>>]
StrTag(h) == [t |-> "str", v |-> <<h>>]
ListTag(hs) == [t |-> "list", v |-> hs]
HighwayTags ==
    {NoTag, StrTag("motorway"), StrTag("primary"), StrTag("residential"),
     StrTag("service"), ListTag(<<"motorway", "motorway_link">>),
     ListTag(<<"service", "motorway">>), ListTag(<<>>)}

\* The most edges a street network has here.
MaxEdges == 2

Graphs == UNION {[1..n -> HighwayTags] : n \in 1..MaxEdges}

\* highway = data.get("highway", "unclassified")
\* if isinstance(highway, list): highway = highway[0] if highway else "unclassified"
highway_class(tag) ==
    IF tag.t = "missing" THEN "unclassified"
    ELSE IF tag.t = "list"
    THEN (IF Len(tag.v) > 0 THEN tag.v[1] ELSE "unclassified")
    ELSE tag.v[1]

\* The if/elif chain of render_poster: theme colour key and width (in tenths).
edge_style(highway) ==
    IF highway \in {"motorway", "motorway_link"}
        THEN [color |-> "road_motorway", width |-> 12]
    ELSE IF highway \in {"trunk", "trunk_link", "primary", "primary_link"}
        THEN [color |-> "road_primary", width |-> 10]
    ELSE IF highway \in {"secondary", "secondary_link"}
        THEN [color |-> "road_secondary", width |-> 8]
    ELSE IF highway \in {"tertiary", "tertiary_link"}
        THEN [color |-> "road_tertiary", width |-> 6]
    ELSE IF highway \in {"residential", "living_street", "unclassified"}
        THEN [color |-> "road_residential", width |-> 4]
    ELSE [color |-> "road_default", width |-> 3]

\* cli get_edge_colors_by_type: the same chain of colours
get_edge_colors_by_type(G) ==
    [i \in 1..Len(G) |-> edge_style(highway_class(G[i])).color]

\* cli get_edge_widths_by_type: four named tiers, 0.4 for everything else
get_edge_widths_by_type(G) ==
    [i \in 1..Len(G) |->
        LET highway == highway_class(G[i])
        IN  IF highway \in {"motorway", "motorway_link"} THEN 12
            ELSE IF highway \in {"trunk", "trunk_link", "primary", "primary_link"} THEN 10
            ELSE IF highway \in {"secondary", "secondary_link"} THEN 8
            ELSE IF highway \in {"tertiary", "tertiary_link"} THEN 6
            ELSE 4]

\* if layer is not None and not layer.empty
Present(layer) == layer # None /\ ~layer.empty

\* try: projected = layer.to_crs(crs) / except Exception: projected = layer
to_crs_or_keep(layer, raises) ==
    IF ~Present(layer) THEN None
    ELSE IF raises THEN layer
    ELSE [layer EXCEPT !.crs = "utm"]

\* rotate_gdf(gdf, ...): None and empty frames are returned as they are
rotate_gdf(gdf) ==
    IF gdf = None \/ gdf.empty THEN gdf ELSE [gdf EXCEPT !.rotated = TRUE]

\* The theme's "edge_width_factor" entry, in tenths: none, or 2.0.
WidthFactors == {<<>>, <<20>>}

\* theme.get("edge_width_factor", 1), in tenths
edge_width_factor(theme) ==
    IF theme.edge_width_factor = <<>> THEN 10 ELSE theme.edge_width_factor[1]

\* if is_thumbnail: edge_width_factor *= 0.5
\* edge_widths = [w * edge_width_factor for w in edge_widths]
\* Widths in tenths times a factor in tenths, halved or not: in 1/200.
scale_widths(widths, theme, is_thumbnail) ==
    [i \in DOMAIN widths |->
        widths[i] * edge_width_factor(theme) * (IF is_thumbnail THEN 1 ELSE 2)]

\* A render_poster call of the handler: its arguments, the calls that will
\* raise, and an empty canvas.
RenderCall(G, parks, water, rotation, bad) ==
    [G |-> G, parks |-> parks, water |-> water, rotation |-> rotation, bad |-> bad,
     stage |-> "project",
     proj |-> [parks |-> None, water |-> None],
     failed |-> {},         \* the (layer, call) pairs that have raised
     drawn |-> <<>>,        \* the layers plotted on the axes, in z-order
     styles |-> <<>>,       \* (color, width) of each edge
     cli |-> None,          \* the edge colours and widths the cli computes
     theme |-> [edge_width_factor |-> <<>>],
     is_thumbnail |-> FALSE,
     edge_widths |-> <<>>]  \* the line width each edge is drawn with

InitRender ==
    /\ input = [j \in Jobs |-> CHOOSE i \in Inputs : TRUE]
    /\ pc = [j \in Jobs |-> "done"]
    /\ loc = [j \in Jobs |-> InitLoc(input[j])]
    /\ loop = 0
    /\ cache = [k \in AllKeys |-> Absent]
    /\ emitted = [j \in Jobs |-> <<>>]
    /\ figs = [p \in Procs |-> <<>>]
    /\ files = [j \in Jobs |-> NoFiles]
    /\ db = [j \in Jobs |-> 0]
    /\ hist = [j \in Jobs |-> InitHist]
    /\ faults = 0
    /\ sequential = TRUE
    /\ kq = NoKeys
    /\ uq = None
    /\ gq = None
    /\ tq = None
    /\ \E G \in Graphs, parks \in LayersIn, water \in LayersIn, rotation \in {0, 45},
          bad \in {{}} \cup {{<<l, op>>} : l \in LayerNames, op \in LayerOps},
          factor \in WidthFactors, is_thumbnail \in BOOLEAN :
            rq = [RenderCall(G, parks, water, rotation, bad) EXCEPT
                    !.theme = [edge_width_factor |-> factor],
                    !.is_thumbnail = is_thumbnail]

RenderFrame ==
    UNCHANGED <<input, pc, loc, loop, cache, emitted, figs, files, db, hist,
                faults, sequential, kq, uq, gq, tq>>

\* parks_projected / water_projected
RenderProject ==
    /\ rq # None /\ rq.stage = "project"
    /\ LET pb == <<"parks", "to_crs">> \in rq.bad /\ Present(rq.parks)
           wb == <<"water", "to_crs">> \in rq.bad /\ Present(rq.water)
       IN  rq' = [rq EXCEPT
                    !.proj = [parks |-> to_crs_or_keep(rq.parks, pb),
                              water |-> to_crs_or_keep(rq.water, wb)],
                    !.failed = @ \cup (IF pb THEN {<<"parks", "to_crs">>} ELSE {})
                                 \cup (IF wb THEN {<<"water", "to_crs">>} ELSE {}),
                    !.stage = "rotate"]
    /\ RenderFrame

\* if rotation and rotation != 0: rotate_graph, rotate_gdf(parks_projected),
\* rotate_gdf(water_projected) - outside any try
RenderRotate ==
    /\ rq # None /\ rq.stage = "rotate"
    /\ LET turn == rq.rotation # 0
           pb == turn /\ Present(rq.proj.parks) /\ <<"parks", "rotate">> \in rq.bad
           wb == turn /\ ~pb /\ Present(rq.proj.water) /\ <<"water", "rotate">> \in rq.bad
       IN  rq' = [rq EXCEPT
                    !.proj = IF ~turn \/ pb THEN @
                             ELSE IF wb THEN [@ EXCEPT !.parks = rotate_gdf(@)]
                             ELSE [parks |-> rotate_gdf(@.parks),
                                   water |-> rotate_gdf(@.water)],
                    !.failed = @ \cup (IF pb THEN {<<"parks", "rotate">>} ELSE {})
                                 \cup (IF wb THEN {<<"water", "rotate">>} ELSE {}),
                    !.stage = IF pb \/ wb THEN "raised" ELSE "plot"]
    /\ RenderFrame

\* water_projected.plot(...) then parks_projected.plot(...), each in
\* try / except Exception: pass
RenderPlotLayers ==
    /\ rq # None /\ rq.stage = "plot"
    /\ LET wb == Present(rq.proj.water) /\ <<"water", "plot">> \in rq.bad
           pb == Present(rq.proj.parks) /\ <<"parks", "plot">> \in rq.bad
           w == IF Present(rq.proj.water) /\ ~wb
                THEN << [layer |-> "water", gdf |-> rq.proj.water] >> ELSE <<>>
           p == IF Present(rq.proj.parks) /\ ~pb
                THEN << [layer |-> "parks", gdf |-> rq.proj.parks] >> ELSE <<>>
       IN  rq' = [rq EXCEPT
                    !.drawn = w \o p,
                    !.failed = @ \cup (IF wb THEN {<<"water", "plot">>} ELSE {})
                                 \cup (IF pb THEN {<<"parks", "plot">>} ELSE {}),
                    !.stage = "edges"]
    /\ RenderFrame

\* for u, v, data in G_projected.edges(data=True): ... edge_colors.append(color);
\* edge_widths.append(width)
RenderEdges ==
    /\ rq # None /\ rq.stage = "edges"
    /\ rq' = [rq EXCEPT
                !.styles = [i \in 1..Len(rq.G) |-> edge_style(highway_class(rq.G[i]))],
                !.edge_widths =
                    scale_widths([i \in 1..Len(rq.G) |->
                                     edge_style(highway_class(rq.G[i])).width],
                                 rq.theme, rq.is_thumbnail),
                !.stage = "done"]
    /\ RenderFrame

\* cli get_edge_widths_by_type: return [w * edge_width_factor for w in
\* edge_widths]; the cli draws no thumbnail
cli_scaled_widths(G, theme) == scale_widths(get_edge_widths_by_type(G), theme, FALSE)

\* cli create_poster: edge_colors = get_edge_colors_by_type(G);
\* edge_widths = get_edge_widths_by_type(G)
CliEdgeStyles ==
    /\ rq # None /\ rq.cli = None
    /\ rq' = [rq EXCEPT !.cli = [colors |-> get_edge_colors_by_type(rq.G),
                                 widths |-> get_edge_widths_by_type(rq.G),
                                 scaled |-> cli_scaled_widths(rq.G, rq.theme)]]
    /\ RenderFrame

NextRender ==
    \/ RenderProject
    \/ RenderRotate
    \/ RenderPlotLayers
    \/ RenderEdges
    \/ CliEdgeStyles

\* One render_poster call on any layers and any street network.
SpecRender == InitRender /\ [][NextRender]_vars

\* ------------------------------------------------------------------ map URLs

\* A map URL is a path and a query.  The path is a sequence of segments, of
\* which the parser tells these apart:
\*   at_m  "@55.7873,12.4654,8502m"   at_z  "@37.7749,-122.4194,15z"
\*   at_int "@48,2,15z" (no decimal point: `-?\d+\.\d+` does not match it)
\*   data  "!3d35.6762!4d139.6503"    text  anything else
\* The query is a sequence of parameters ll=... / q=..., whose value is
\*   pair "30.0444,31.2357"   words "foo,bar"   one "Paris"
SanFrancisco == <<377749, -1224194>>
Lyngby       == <<557873, 124654>>
Tokyo        == <<356762, 1396503>>
Cairo        == <<300444, 312357>>
Lima         == <<-120464, -770428>>
OffMap       == <<950000, 2000000>>

Segment(t, p, n) == [t |-> t, p |-> p, n |-> n]
Segments ==
    {Segment("at_m", Lyngby, 8502), Segment("at_m", OffMap, 0),
     Segment("at_z", SanFrancisco, 0), Segment("at_int", Paris, 0),
     Segment("data", Tokyo, 0), Segment("text", NoPoint, 0)}

Param(k, t, p) == [k |-> k, t |-> t, p |-> p]
Params ==
    {Param("ll", "pair", Cairo), Param("ll", "words", NoPoint),
     Param("ll", "one", NoPoint), Param("q", "pair", Lima),
     Param("q", "words", NoPoint)}

\* The longest path and the longest query of a URL here.
MaxPath  == 2
MaxQuery == 2

Urls ==
    [path : UNION {[1..n -> Segments] : n \in 0..MaxPath},
     query : UNION {[1..n -> Params] : n \in 0..MaxQuery}]

\* re.search over the URL: the leftmost segment of the kind the pattern matches.
re_search(url, kind) ==
    LET hits == {i \in 1..Len(url.path) : url.path[i].t = kind}
    IN  IF hits = {} THEN None
        ELSE url.path[CHOOSE i \in hits : \A h \in hits : i <= h]

\* urlparse.parse_qs(parsed.query)[key][0]: the value of the first parameter
\* of that name.
parse_qs(url, key) ==
    LET hits == {i \in 1..Len(url.query) : url.query[i].k = key}
    IN  IF hits = {} THEN None
        ELSE url.query[CHOOSE i \in hits : \A h \in hits : i <= h]

\* len(value.split(",")) == 2
TwoItems(v) == v # None /\ v.t \in {"pair", "words"}

\* The elevation is an int or None: <<n>> or <<>>.
Parsed(p, elevation) == [r |-> "ok", point |-> p, elevation |-> elevation]
ValueError(why) == [r |-> "ValueError", point |-> NoPoint, elevation |-> <<>>, why |-> why]

\* A parser that asks for the zoom form before the elevation form.
parse_zoom_first(url) ==
    LET a  == re_search(url, "at_m")
        b  == re_search(url, "at_z")
        ll == parse_qs(url, "ll")
        q  == parse_qs(url, "q")
        f  == re_search(url, "data")
    IN  IF b # None THEN Parsed(b.p, <<>>)
        ELSE IF a # None THEN Parsed(a.p, <<a.n>>)
        ELSE IF TwoItems(ll) /\ ll.t = "pair" THEN Parsed(ll.p, <<>>)
        ELSE IF TwoItems(ll) THEN ValueError("float")
        ELSE IF TwoItems(q) /\ q.t = "pair" THEN Parsed(q.p, <<>>)
        ELSE IF f # None THEN Parsed(f.p, <<>>)
        ELSE ValueError("no_match")

\* parse_google_maps_url(url): the patterns in the order of the code.  float()
\* of the ll items is not guarded, that of the q items is.
parse_google_maps_url(url) ==
    LET a  == re_search(url, "at_m")
        b  == re_search(url, "at_z")
        ll == parse_qs(url, "ll")
        q  == parse_qs(url, "q")
        f  == re_search(url, "data")
    IN  IF a # None THEN Parsed(a.p, <<a.n>>)
        ELSE IF b # None THEN Parsed(b.p, <<>>)
        ELSE IF TwoItems(ll) /\ ll.t = "pair" THEN Parsed(ll.p, <<>>)
        ELSE IF TwoItems(ll) THEN ValueError("float")
        ELSE IF TwoItems(q) /\ q.t = "pair" THEN Parsed(q.p, <<>>)
        ELSE IF a # None THEN Parsed(a.p, <<a.n>>)       \* "/@...m"
        ELSE IF b # None THEN Parsed(b.p, <<>>)          \* "/@...z"
        ELSE IF f # None THEN Parsed(f.p, <<>>)
        ELSE ValueError("no_match")

\* The part of a job's input that decides its point and radius: the map URL
\* (None when there is none), lat/lon, and the distance as <<d>>, or <<>> when
\* the caller gave none.
\* lat is given and lon is not
LatOnly == <<488566>>

UrlInputs ==
    [url : Urls, latlon : {NoPoint, Paris, LatOnly},
     distance : {<<>>, <<DefaultDistance>>, <<5000>>}]
    \cup [url : {None}, latlon : {NoPoint, Paris, OffMap, LatOnly},
          distance : {<<>>, <<DefaultDistance>>, <<5000>>}]

\* input_data.get("distance", 29000)
distance_or_default(i) == IF i.distance = <<>> THEN DefaultDistance ELSE i.distance[1]

\* if elevation and distance == 29000: distance = elevation // 2
distance_from_elevation(elevation, distance) ==
    IF elevation # <<>> /\ elevation[1] # 0 /\ distance = DefaultDistance
    THEN elevation[1] \div 2
    ELSE distance

InitUrl ==
    /\ input = [j \in Jobs |-> CHOOSE i \in Inputs : TRUE]
    /\ pc = [j \in Jobs |-> "done"]
    /\ loc = [j \in Jobs |-> InitLoc(input[j])]
    /\ loop = 0
    /\ cache = [k \in AllKeys |-> Absent]
    /\ emitted = [j \in Jobs |-> <<>>]
    /\ figs = [p \in Procs |-> <<>>]
    /\ files = [j \in Jobs |-> NoFiles]
    /\ db = [j \in Jobs |-> 0]
    /\ hist = [j \in Jobs |-> InitHist]
    /\ faults = 0
    /\ sequential = TRUE
    /\ kq = NoKeys
    /\ rq = None
    /\ gq = None
    /\ tq = None
    /\ \E i \in UrlInputs :
         uq = [in |-> i, stage |-> "start", parsed |-> None,
               latlon |-> i.latlon, dist |-> distance_or_default(i),
               point |-> NoPoint, key |-> ""]

UrlFrame ==
    UNCHANGED <<input, pc, loc, loop, cache, emitted, figs, files, db, hist,
                faults, sequential, kq, rq, gq, tq>>

\* A handler that goes on to lat/lon and the geocoder when the URL cannot be
\* parsed.
UrlParse_fallback ==
    /\ uq # None /\ uq.stage = "start"
    /\ IF uq.in.url = None
       THEN uq' = [uq EXCEPT !.stage = "resolve"]
       ELSE LET coords == parse_google_maps_url(uq.in.url)
            IN  IF coords.r = "ok"
                THEN uq' = [uq EXCEPT
                              !.parsed = coords,
                              !.latlon = coords.point,
                              !.dist = distance_from_elevation(coords.elevation, @),
                              !.stage = "resolve"]
                ELSE uq' = [uq EXCEPT !.parsed = coords, !.stage = "resolve"]
    /\ UrlFrame

\* if google_maps_url: try: coords = parse_google_maps_url(...); lat, lon =
\* coords[0], coords[1]; the elevation rule; except ValueError: status error
\* and return
UrlParse ==
    /\ uq # None /\ uq.stage = "start"
    /\ IF uq.in.url = None
       THEN uq' = [uq EXCEPT !.stage = "resolve"]
       ELSE LET coords == parse_google_maps_url(uq.in.url)
            IN  IF coords.r = "ok"
                THEN uq' = [uq EXCEPT
                              !.parsed = coords,
                              !.latlon = coords.point,
                              !.dist = distance_from_elevation(coords.elevation, @),
                              !.stage = "resolve"]
                ELSE uq' = [uq EXCEPT !.parsed = coords, !.stage = "error"]
    /\ UrlFrame

\* if lat is not None and lon is not None: point = (lat, lon)
\* else: point = get_coordinates(city, country)
UrlResolve ==
    /\ uq # None /\ uq.stage = "resolve"
    /\ uq' = IF Len(uq.latlon) = 2
             THEN [uq EXCEPT !.point = uq.latlon, !.stage = "fetch"]
             ELSE [uq EXCEPT !.stage = "geocode"]
    /\ UrlFrame

\* lat, lon = point; graph_key = f"graph_{lat}_{lon}_{distance}"
UrlGraphKey ==
    /\ uq # None /\ uq.stage = "fetch"
    /\ uq' = [uq EXCEPT !.key = graph_key(uq.point, uq.dist), !.stage = "keyed"]
    /\ UrlFrame

NextUrl == UrlParse \/ UrlResolve \/ UrlGraphKey

\* The handler from its input to the key of the street-network fetch.
SpecUrl == InitUrl /\ [][NextUrl]_vars

\* ------------------------------------------------------------------ geometry

\* A point is <<x, y>>.  Coordinates are whole numbers and rotations are by
\* whole quarter turns, for which the sine and cosine are exact.

\* An object of the interpreter: a street network (the positions of its nodes
\* and the geometry attribute of its edge, empty when the edge has none) or a
\* GeoDataFrame (no nodes; the vertices of its geometry, none when it is
\* empty).  A reference is the object's index in the heap; 0 is None.
Obj(crs, nodes, geom) == [crs |-> crs, nodes |-> nodes, geom |-> geom]

\* The street networks: two nodes joined by one edge, which is straight (no
\* geometry attribute) or bent (a geometry from the first node over a corner to
\* the second).
NodePairs ==
    {<< <<0, 0>>, <<2, 0>> >>, << <<1, 1>>, <<3, 2>> >>, << <<-1, 0>>, <<0, 3>> >>}
Bent(nodes) == <<nodes[1], <<nodes[1][1], nodes[2][2] + 1>>, nodes[2]>>
GeomGraphs ==
    {Obj("latlon", n, <<>>) : n \in NodePairs} \cup
    {Obj("latlon", n, Bent(n)) : n \in NodePairs}

\* The feature layers: None, an empty frame, a frame with one triangle.
GeomLayers ==
    {None, Obj("latlon", <<>>, <<>>),
     Obj("latlon", <<>>, << <<0, 0>>, <<2, 1>>, <<1, 3>> >>)}

\* rotation of the job input: null, or a number of degrees
Rotations == {<<>>, <<0>>, <<90>>, <<180>>, <<270>>, <<-90>>, <<360>>}

\* math.cos(math.radians(angle_deg)), math.sin(math.radians(angle_deg))
cos_a(angle_deg) ==
    LET r == angle_deg % 360 IN IF r = 0 THEN 1 ELSE IF r = 180 THEN -1 ELSE 0
sin_a(angle_deg) ==
    LET r == angle_deg % 360 IN IF r = 90 THEN 1 ELSE IF r = 270 THEN -1 ELSE 0

\* rotate_graph without the translation back to the centre
rotate_graph_about_origin(nodes, angle_deg, center) ==
    [n \in DOMAIN nodes |->
        LET dx == nodes[n][1] - center[1]
            dy == nodes[n][2] - center[2]
        IN  <<dx * cos_a(angle_deg) - dy * sin_a(angle_deg),
              dx * sin_a(angle_deg) + dy * cos_a(angle_deg)>>]

\* for node, data in G.nodes(data=True): dx = x - center_x; dy = y - center_y;
\* new_x = dx * cos_a - dy * sin_a + center_x;
\* new_y = dx * sin_a + dy * cos_a + center_y
rotate_graph(nodes, angle_deg, center) ==
    [n \in DOMAIN nodes |->
        LET dx == nodes[n][1] - center[1]
            dy == nodes[n][2] - center[2]
        IN  <<dx * cos_a(angle_deg) - dy * sin_a(angle_deg) + center[1],
              dx * sin_a(angle_deg) + dy * cos_a(angle_deg) + center[2]>>]

\* shapely.affinity.rotate: the affine map [cos, -sin, sin, cos, xoff, yoff]
\* with xoff = x0 - x0 cos + y0 sin and yoff = y0 - x0 sin - y0 cos; a positive
\* angle turns counter-clockwise.
affinity_rotate(geom, angle, origin) ==
    LET c == cos_a(angle)
        s == sin_a(angle)
        xoff == origin[1] - origin[1] * c + origin[2] * s
        yoff == origin[2] - origin[1] * s - origin[2] * c
    IN  [i \in DOMAIN geom |->
            <<c * geom[i][1] - s * geom[i][2] + xoff,
              s * geom[i][1] + c * geom[i][2] + yoff>>]

\* return affinity.rotate(geom, angle_deg, origin=(center_x, center_y))
rotate_geometry(geom, angle_deg, center) == affinity_rotate(geom, angle_deg, center)

\* The projection to metres: a change of unit and a false easting.
project_point(p) == <<500 + 2 * p[1], 2 * p[2]>>

\* ox.project_graph(G): a new graph, its nodes and edge geometries projected
project_graph(G) ==
    Obj("utm", [n \in DOMAIN G.nodes |-> project_point(G.nodes[n])],
        [i \in DOMAIN G.geom |-> project_point(G.geom[i])])

\* gdf.to_crs(crs): a new frame, its geometries projected
to_crs(gdf) == Obj("utm", <<>>, [i \in DOMAIN gdf.geom |-> project_point(gdf.geom[i])])

RECURSIVE SeqSum(_)
SeqSum(xs) == IF xs = <<>> THEN 0 ELSE Head(xs) + SeqSum(Tail(xs))

\* center_x = nodes['x'].mean(); center_y = nodes['y'].mean()
\* (the projected positions of the networks here have whole means)
nodes_mean(nodes) ==
    <<SeqSum([n \in DOMAIN nodes |-> nodes[n][1]]) \div Len(nodes),
      SeqSum([n \in DOMAIN nodes |-> nodes[n][2]]) \div Len(nodes)>>

\* if rotation and rotation != 0
Turns(rotation) == rotation # <<>> /\ rotation[1] # 0

\* gdf is not None and not gdf.empty, for a reference
Filled(heap, ref) == ref # 0 /\ heap[ref].geom # <<>>

\* rotate_gdf that rotates the frame it is given
rotate_gdf_in_place(heap, ref, angle_deg, center) ==
    IF ~Filled(heap, ref) THEN [heap |-> heap, ref |-> ref]
    ELSE [heap |-> [heap EXCEPT ![ref].geom = rotate_geometry(@, angle_deg, center)],
          ref |-> ref]

\* rotate_gdf: None and an empty frame are returned as they are; otherwise
\* gdf = gdf.copy() and the geometries of the copy are rotated
rotate_gdf_copy(heap, ref, angle_deg, center) ==
    IF ~Filled(heap, ref) THEN [heap |-> heap, ref |-> ref]
    ELSE [heap |-> Append(heap, [heap[ref] EXCEPT
                                    !.geom = rotate_geometry(@, angle_deg, center)]),
          ref |-> Len(heap) + 1]

\* The references render_poster holds before it has projected anything.
NoLocals == [Gp |-> 0, pp |-> 0, wp |-> 0]

\* What one render_poster call has put on the axes.
NotDrawn == [nodes |-> <<>>, edge |-> <<>>, parks |-> <<>>, water |-> <<>>]

\* The handler's two render_poster calls on the same G, parks, water and
\* rotation; `bad` are the layers whose to_crs raises.
InitGeom ==
    /\ input = [j \in Jobs |-> CHOOSE i \in Inputs : TRUE]
    /\ pc = [j \in Jobs |-> "done"]
    /\ loc = [j \in Jobs |-> InitLoc(input[j])]
    /\ loop = 0
    /\ cache = [k \in AllKeys |-> Absent]
    /\ emitted = [j \in Jobs |-> <<>>]
    /\ figs = [p \in Procs |-> <<>>]
    /\ files = [j \in Jobs |-> NoFiles]
    /\ db = [j \in Jobs |-> 0]
    /\ hist = [j \in Jobs |-> InitHist]
    /\ faults = 0
    /\ sequential = TRUE
    /\ kq = NoKeys
    /\ uq = None
    /\ rq = None
    /\ tq = None
    /\ \E G \in GeomGraphs, parks \in GeomLayers, water \in GeomLayers,
          rotation \in Rotations, bad \in SUBSET LayerNames :
         LET objs == <<G>> \o (IF parks = None THEN <<>> ELSE <<parks>>)
                          \o (IF water = None THEN <<>> ELSE <<water>>)
         IN  gq = [given |-> objs, heap |-> objs,
                   G |-> 1,
                   parks |-> IF parks = None THEN 0 ELSE 2,
                   water |-> IF water = None THEN 0 ELSE Len(objs),
                   rotation |-> rotation, bad |-> bad,
                   call |-> "main", stage |-> "project",
                   l |-> NoLocals, center |-> NoPoint,
                   drawn |-> [main |-> NotDrawn, thumb |-> NotDrawn]]

GeomFrame ==
    UNCHANGED <<input, pc, loc, loop, cache, emitted, figs, files, db, hist,
                faults, sequential, kq, uq, rq, tq>>

\* layer_projected = None; if layer is not None and not layer.empty:
\* try: layer_projected = layer.to_crs(crs) / except Exception: layer_projected = layer
project_layer(heap, ref, raises) ==
    IF ~Filled(heap, ref) THEN [heap |-> heap, ref |-> 0]
    ELSE IF raises THEN [heap |-> heap, ref |-> ref]
    ELSE [heap |-> Append(heap, to_crs(heap[ref])), ref |-> Len(heap) + 1]

\* G_projected = ox.project_graph(G); parks_projected; water_projected
GeomProject ==
    /\ gq # None /\ gq.stage = "project"
    /\ LET h1 == Append(gq.heap, project_graph(gq.heap[gq.G]))
           p == project_layer(h1, gq.parks, "parks" \in gq.bad)
           w == project_layer(p.heap, gq.water, "water" \in gq.bad)
       IN  gq' = [gq EXCEPT !.heap = w.heap,
                            !.l = [Gp |-> Len(h1), pp |-> p.ref, wp |-> w.ref],
                            !.stage = "center"]
    /\ GeomFrame

\* nodes = ox.graph_to_gdfs(G_projected, edges=False); center_x, center_y
GeomCenter ==
    /\ gq # None /\ gq.stage = "center"
    /\ gq' = [gq EXCEPT !.center = nodes_mean(gq.heap[gq.l.Gp].nodes),
                        !.stage = "rotate"]
    /\ GeomFrame

\* if rotation and rotation != 0: G_projected = rotate_graph(G_projected, ...)
\* (which writes the nodes of the graph it is given); parks_projected =
\* rotate_gdf(parks_projected, ...); water_projected = rotate_gdf(water_projected, ...)
GeomRotate ==
    /\ gq # None /\ gq.stage = "rotate"
    /\ IF ~Turns(gq.rotation) THEN gq' = [gq EXCEPT !.stage = "plot"]
       ELSE LET a == gq.rotation[1]
                h1 == [gq.heap EXCEPT
                         ![gq.l.Gp].nodes = rotate_graph(@, a, gq.center)]
                p == rotate_gdf_copy(h1, gq.l.pp, a, gq.center)
                w == rotate_gdf_copy(p.heap, gq.l.wp, a, gq.center)
            IN  gq' = [gq EXCEPT !.heap = w.heap,
                                 !.l = [@ EXCEPT !.pp = p.ref, !.wp = w.ref],
                                 !.stage = "plot"]
    /\ GeomFrame

\* ox.plot_graph draws each edge along its geometry attribute, and along the
\* straight line between its end nodes when it has none.
edge_line(G) == IF G.geom # <<>> THEN G.geom ELSE G.nodes

\* water_projected.plot, parks_projected.plot, ox.plot_graph(G_projected, ...)
GeomPlot ==
    /\ gq # None /\ gq.stage = "plot"
    /\ LET h == gq.heap
           l == gq.l
           on == [nodes |-> h[l.Gp].nodes,
                  edge |-> edge_line(h[l.Gp]),
                  parks |-> IF Filled(h, l.pp) THEN h[l.pp].geom ELSE <<>>,
                  water |-> IF Filled(h, l.wp) THEN h[l.wp].geom ELSE <<>>]
       IN  gq' = [gq EXCEPT !.drawn = IF gq.call = "main"
                                      THEN [@ EXCEPT !.main = on]
                                      ELSE [@ EXCEPT !.thumb = on],
                            !.stage = "return"]
    /\ GeomFrame

\* return fig; the handler saves the figure and renders the thumbnail from
\* the same G, parks and water
GeomReturn ==
    /\ gq # None /\ gq.stage = "return"
    /\ gq' = [gq EXCEPT !.call = IF @ = "main" THEN "thumb" ELSE "done",
                        !.stage = IF gq.call = "main" THEN "project" ELSE "done",
                        !.l = NoLocals, !.center = NoPoint]
    /\ GeomFrame

NextGeom ==
    \/ GeomProject
    \/ GeomCenter
    \/ GeomRotate
    \/ GeomPlot
    \/ GeomReturn

\* The main render and the thumbnail render of one job.
SpecGeom == InitGeom /\ [][NextGeom]_vars

\* ------------------------------------------------------------------ theme, fonts, caption

\* A file name in lower case, cut into its words and separators:
\* Roboto-SemiBold.ttf is <<"roboto", "-", "semi", "bold", ".ttf">>.
FontFiles ==
    {<<"roboto", "-", "bold", ".ttf">>,
     <<"roboto", "-", "bold", "italic", ".ttf">>,
     <<"roboto", "-", "semi", "bold", ".ttf">>,
     <<"roboto", "-", "extra", "bold", ".ttf">>,
     <<"roboto", "semi", "condensed", "-", "semi", "bold", ".ttf">>,
     <<"roboto", "-", "italic", "-", "bold", ".ttf">>,
     <<"roboto", "-", "light", ".ttf">>}

NoFile == <<>>
Weights == {"bold", "regular", "light"}

\* get_default_fonts(): the Roboto triple
get_default_fonts ==
    [bold |-> <<"roboto", "-", "bold", ".ttf">>,
     regular |-> <<"roboto", "-", "regular", ".ttf">>,
     light |-> <<"roboto", "-", "light", ".ttf">>]

\* len(filename)
name_len(file) == SeqSum([i \in DOMAIN file |-> Len(file[i])])

\* word in filename.lower()
has_word(file, word) == \E i \in DOMAIN file : file[i] = word

\* A pattern of score_font: the suffix the name must end with, whether a word
\* boundary (\b) must precede that suffix, and the points it gives.
Pattern(suffix, boundary, points) ==
    [suffix |-> suffix, boundary |-> boundary, points |-> points]

\* The characters of these separators are not word characters.
NonWord == {"-", " "}

\* re.search(pattern, filename.lower())
suffix_match(file, p) ==
    LET k == Len(file) - Len(p.suffix)
    IN  /\ k >= 0
        /\ SubSeq(file, k + 1, Len(file)) = p.suffix
        /\ p.boundary => (k = 0 \/ file[k] \in NonWord)

\* patterns of score_font for a weight; the cli has more of them
patterns(weight, variant) ==
    IF weight = "bold"
    THEN <<Pattern(<<"bold", ".ttf">>, TRUE, 200),
           Pattern(<<"-", "bold", ".ttf">>, FALSE, 190),
           Pattern(<<"-", "semi", "bold", ".ttf">>, FALSE, 150)>>
         \o (IF variant = "cli"
             THEN <<Pattern(<<"-", "extra", "bold", ".ttf">>, FALSE, 140),
                    Pattern(<<"-", "black", ".ttf">>, FALSE, 130)>>
             ELSE <<>>)
    ELSE IF weight = "light"
    THEN <<Pattern(<<"light", ".ttf">>, TRUE, 200),
           Pattern(<<"-", "light", ".ttf">>, FALSE, 190),
           Pattern(<<"-", "thin", ".ttf">>, FALSE, 150)>>
         \o (IF variant = "cli"
             THEN <<Pattern(<<"-", "extra", "light", ".ttf">>, FALSE, 140)>>
             ELSE <<>>)
    ELSE <<Pattern(<<"regular", ".ttf">>, TRUE, 200),
           Pattern(<<"-", "regular", ".ttf">>, FALSE, 190),
           Pattern(<<"-", "medium", ".ttf">>, FALSE, 180)>>

\* for pattern, points in patterns: if re.search(...): score += points; break
pattern_points(file, weight, variant) ==
    LET ps == patterns(weight, variant)
        hits == {i \in DOMAIN ps : suffix_match(file, ps[i])}
    IN  IF hits = {} THEN 0
        ELSE ps[CHOOSE i \in hits : \A h \in hits : i <= h].points

\* score_font: base 100, the points of the first pattern that matches, 50 off
\* for "italic" in the name, and the length of the name off
score_font(file, weight, variant) ==
    100 + pattern_points(file, weight, variant)
        - (IF has_word(file, "italic") THEN 50 ELSE 0)
        - name_len(file)

\* candidates[weight]: the .ttf files of the folder with the weight's word in
\* their name
candidates(folder, weight) == {f \in folder : has_word(f, weight)}

\* scored.sort(reverse=True, key=score); fonts_found[weight] = scored[0][1]:
\* a file of the highest score (the sort keeps the directory's order among equals)
best_files(folder, weight, variant) ==
    {f \in candidates(folder, weight) :
        \A g \in candidates(folder, weight) :
            score_font(g, weight, variant) <= score_font(f, weight, variant)}

\* fonts_found[weight]: None when the weight has no candidate
found_for(folder, weight, variant) ==
    IF candidates(folder, weight) = {} THEN {NoFile}
    ELSE best_files(folder, weight, variant)

\* The content of the themes directory under the theme's name: no file, a
\* JSON object (its keys, and its "fonts" entry if it has one), or a file that
\* is not JSON.
ThemeKeys ==
    {"name", "bg", "text", "gradient_color", "water", "parks", "road_motorway",
     "road_primary", "road_secondary", "road_tertiary", "road_residential",
     "road_default"}
NoFonts == [bold |-> NoFile, regular |-> NoFile, light |-> NoFile]
SerifFonts ==
    [bold |-> <<"lora", "-", "bold", ".ttf">>,
     regular |-> <<"lora", "-", "regular", ".ttf">>,
     light |-> <<"lora", "-", "light", ".ttf">>]
ThemeFile(t, keys, fonts) == [t |-> t, keys |-> keys, fonts |-> fonts]
ThemeFiles ==
    {ThemeFile("missing", {}, NoFonts),
     ThemeFile("json", ThemeKeys, NoFonts),
     ThemeFile("json", ThemeKeys \cup {"edge_width_factor"}, NoFonts),
     ThemeFile("json", ThemeKeys \cup {"fonts"}, SerifFonts),
     ThemeFile("garbage", {}, NoFonts)}

Theme(keys, fonts) == [keys |-> keys, fonts |-> fonts]
Loaded(theme) == [raised |-> FALSE, theme |-> theme]
LoadRaised == [raised |-> TRUE, theme |-> Theme({}, NoFonts)]

\* load_theme that returns the file's object as it is
load_theme_as_read(file) ==
    IF file.t = "missing" THEN Loaded(Theme(ThemeKeys \cup {"fonts"}, get_default_fonts))
    ELSE IF file.t = "garbage" THEN LoadRaised
    ELSE Loaded(Theme(file.keys, file.fonts))

\* load_theme: the embedded theme when the file does not exist; otherwise
\* json.load (which raises on a file that is not JSON) and
\* if "fonts" not in theme: theme["fonts"] = get_default_fonts()
load_theme(file) ==
    IF file.t = "missing" THEN Loaded(Theme(ThemeKeys \cup {"fonts"}, get_default_fonts))
    ELSE IF file.t = "garbage" THEN LoadRaised
    ELSE IF "fonts" \in file.keys THEN Loaded(Theme(file.keys, file.fonts))
    ELSE Loaded(Theme(file.keys \cup {"fonts"}, get_default_fonts))

\* A float of the caption: its sign bit and its magnitude in 1/100000 degree.
Float(neg, mag) == [neg |-> neg, mag |-> mag]
CaptionCoords ==
    {Float(FALSE, 4885661), Float(TRUE, 12241943), Float(FALSE, 0), Float(TRUE, 0),
     Float(TRUE, 3)}

\* x >= 0, x < 0, abs(x)
float_ge0(x) == ~x.neg \/ x.mag = 0
float_lt0(x) == x.neg /\ x.mag # 0
float_abs(x) == Float(FALSE, x.mag)

\* f"{x:.4f}": the sign of the float, then its magnitude rounded to four decimals
format_4f(x) ==
    LET m == (x.mag + 5) \div 10
        f == m % 10000
    IN  [sign |-> IF x.neg THEN "-" ELSE "",
         digits |-> ToString(m \div 10000) \o "." \o ToString(f \div 1000)
                    \o ToString((f \div 100) % 10) \o ToString((f \div 10) % 10)
                    \o ToString(f % 10)]

\* One half of the caption: the formatted number and the hemisphere letter.
Half(num, letter) == [sign |-> num.sign, digits |-> num.digits, letter |-> letter]

\* render_poster: lat_str = f"{point[0]:.4f}° N" if point[0] >= 0 else
\* f"{abs(point[0]):.4f}° S"; lon_str likewise with E and W
coords_text(point) ==
    [lat |-> IF float_ge0(point[1]) THEN Half(format_4f(point[1]), "N")
             ELSE Half(format_4f(float_abs(point[1])), "S"),
     lon |-> IF float_ge0(point[2]) THEN Half(format_4f(point[2]), "E")
             ELSE Half(format_4f(float_abs(point[2])), "W")]

\* cli create_poster: coords = f"{lat:.4f}° N / {lon:.4f}° E" if lat >= 0 else
\* f"{abs(lat):.4f}° S / {lon:.4f}° E"; if lon < 0: coords = coords.replace("E", "W")
cli_coords(point) ==
    [lat |-> IF float_ge0(point[1]) THEN Half(format_4f(point[1]), "N")
             ELSE Half(format_4f(float_abs(point[1])), "S"),
     lon |-> Half(format_4f(point[2]), IF float_lt0(point[2]) THEN "W" ELSE "E")]

NoCaption == [lat |-> Half([sign |-> "", digits |-> ""], ""),
              lon |-> Half([sign |-> "", digits |-> ""], "")]

\* A job with a theme name and a font family: the theme file under the name,
\* the files of the family's folder, and the point of the caption.
InitText ==
    /\ input = [j \in Jobs |-> CHOOSE i \in Inputs : TRUE]
    /\ pc = [j \in Jobs |-> "done"]
    /\ loc = [j \in Jobs |-> InitLoc(input[j])]
    /\ loop = 0
    /\ cache = [k \in AllKeys |-> Absent]
    /\ emitted = [j \in Jobs |-> <<>>]
    /\ figs = [p \in Procs |-> <<>>]
    /\ files = [j \in Jobs |-> NoFiles]
    /\ db = [j \in Jobs |-> 0]
    /\ hist = [j \in Jobs |-> InitHist]
    /\ faults = 0
    /\ sequential = TRUE
    /\ kq = NoKeys
    /\ uq = None
    /\ rq = None
    /\ gq = None
    /\ \E variant \in Variants, file \in ThemeFiles, folder \in SUBSET FontFiles,
          lat \in CaptionCoords, lon \in CaptionCoords :
         tq = [variant |-> variant, file |-> file, folder |-> folder,
               point |-> <<lat, lon>>, stage |-> "theme",
               loaded |-> LoadRaised, theme |-> Theme({}, NoFonts),
               found |-> NoFonts, caption |-> NoCaption]

TextFrame ==
    UNCHANGED <<input, pc, loc, loop, cache, emitted, figs, files, db, hist,
                faults, sequential, kq, uq, rq, gq>>

\* theme = load_theme(theme_name)
TextLoadTheme ==
    /\ tq # None /\ tq.stage = "theme"
    /\ LET r == load_theme(tq.file)
       IN  tq' = [tq EXCEPT !.loaded = r, !.theme = r.theme,
                            !.stage = IF r.raised THEN "raised" ELSE "fonts"]
    /\ TextFrame

\* custom_fonts = find_font_family(...): for each weight with candidates, a
\* file of the highest score; if custom_fonts: theme["fonts"] = custom_fonts
TextFindFonts ==
    /\ tq # None /\ tq.stage = "fonts"
    /\ \E bold \in found_for(tq.folder, "bold", tq.variant),
          regular \in found_for(tq.folder, "regular", tq.variant),
          light \in found_for(tq.folder, "light", tq.variant) :
         LET triple == [bold |-> bold, regular |-> regular, light |-> light]
         IN  tq' = [tq EXCEPT
                      !.found = triple,
                      !.theme = IF triple = NoFonts THEN @
                                ELSE [@ EXCEPT !.fonts = triple],
                      !.stage = "caption"]
    /\ TextFrame

\* the coordinate line under the city and country
TextCaption ==
    /\ tq # None /\ tq.stage = "caption"
    /\ tq' = [tq EXCEPT !.caption = IF tq.variant = "step" THEN coords_text(tq.point)
                                    ELSE cli_coords(tq.point),
                        !.stage = "done"]
    /\ TextFrame

NextText ==
    \/ TextLoadTheme
    \/ TextFindFonts
    \/ TextCaption

\* The theme, the fonts and the caption of one poster.
SpecText == InitText /\ [][NextText]_vars

\* ------------------------------------------------------------------ properties

\* The job is inside get_coordinates.
InGc(j) ==
    \/ pc[j] \in {"gc_get", "gc_delay", "gc_try", "gc_backoff"}
    \/ pc[j] \in {"set_open", "set_dump"} /\ loc[j].kind = "coords"

\* The job has left get_coordinates (it was entered only without lat/lon).
PastGc(j) ==
    /\ input[j].latlon = NoPoint
    /\ pc[j] \notin {"start", "resolve"}
    /\ ~InGc(j)

\* What the job holds as the result of fetch k.
Held(j, k) ==
    CASE k = "coords" -> CoordsPayload(loc[j].point)
      [] k = "graph"  -> loc[j].G
      [] k = "parks"  -> loc[j].parks
      [] k = "water"  -> loc[j].water

Statuses(j) == {emitted[j][i][1] : i \in 1..Len(emitted[j])}

\* C1: in geocoding, the street-network fetch and each feature fetch, a provider
\* call is made only after the cache was read under the request's key and the
\* read returned nothing; a read that returned a payload is followed by no
\* provider call for that request.
C1_CacheReadFirst ==
    \A j \in Jobs : hist[j].calls > 0 => hist[j].read = "miss"

\* A job that took both its point and its last feature layer from the cache,
\* without a provider call, and completed.
C1_Witness ==
    \E j \in Jobs :
        /\ pc[j] = "done" /\ loc[j].status = "completed"
        /\ loc[j].via = "cache"
        /\ hist[j].kind = "water" /\ hist[j].read = "hit" /\ hist[j].calls = 0

\* C2: a point obtained from the geocoder is in the cache under the
\* (city, country) key when get_coordinates returns, and with the write done a
\* later get_coordinates for the same (city, country) makes no provider call
\* and returns the same point.
C2_GeocodeCached ==
    \A a \in Jobs :
        (PastGc(a) /\ loc[a].via = "provider" /\ loc[a].stored) =>
            /\ cache[KeyOf(a, "coords")] = CoordsPayload(loc[a].point)
            /\ \A b \in Jobs \ {a} :
                 ( /\ a \in loc[b].after
                   /\ input[b].city = input[a].city
                   /\ input[b].country = input[a].country
                   /\ PastGc(b) ) =>
                     /\ loc[b].via = "cache"
                     /\ loc[b].point = loc[a].point

\* The second job has returned from get_coordinates with the point the first
\* one geocoded and stored.
C2_Witness ==
    \E a, b \in Jobs :
        /\ a \in loc[b].after
        /\ loc[a].via = "provider" /\ loc[a].stored
        /\ PastGc(b) /\ loc[b].via = "cache" /\ loc[b].point = loc[a].point
        /\ pc[b] = "done"

\* The geocoder calls that failed, in the handler's get_coordinates.
GcFailures(j) == hist[j].calls - (IF hist[j].fresh # None THEN 1 ELSE 0)

Min(a, b) == IF a < b THEN a ELSE b

\* The sleeps get_coordinates has made after k failures, none of them pending:
\* the rate-limit delay, then 2 and 4 seconds after the first and second failure.
WaitsAfter(k) == SubSeq(<<1, 2, 4>>, 1, 1 + Min(k, 2))

C3_Bounded ==
    \A j \in Jobs :
        (IsStep(j) /\ hist[j].kind = "coords" /\ hist[j].read = "miss") =>
            /\ hist[j].calls <= 3
            /\ pc[j] = "gc_delay" => hist[j].waits = <<>>
            /\ pc[j] = "gc_backoff" => hist[j].waits = WaitsAfter(GcFailures(j) - 1)
            /\ pc[j] \notin {"gc_delay", "gc_backoff"} =>
                   hist[j].waits = WaitsAfter(GcFailures(j))
            /\ loc[j].err # "no_point"
            /\ PastGc(j) /\ loc[j].status # "error" => loc[j].point \in Points

\* C3: on a cache miss the handler's get_coordinates calls the geocoder at most
\* 3 times, waits 2*k seconds after the k-th failure (k = 1, 2) and not after
\* the 3rd, and always ends, with a point or with an error.
C3_RetryTerminates ==
    /\ []C3_Bounded
    /\ \A j \in Jobs : InGc(j) ~> ~InGc(j)

\* Three geocoder calls have failed: the waits were 1, 2 and 4 seconds and the
\* job has ended with an error.
C3_Witness ==
    \E j \in Jobs :
        /\ IsStep(j) /\ hist[j].kind = "coords"
        /\ hist[j].calls = 3 /\ hist[j].fresh = None
        /\ hist[j].waits = <<1, 2, 4>>
        /\ pc[j] = "done" /\ loc[j].err = "geocode"

\* C4: when the geocoder reports "not found", get_coordinates fails at once: no
\* further geocoder call and no backoff wait follow that answer (one call in
\* all when it is the first answer).
C4_NotFoundFailsAtOnce ==
    \A j \in Jobs :
        (hist[j].kind = "coords" /\ hist[j].notFound > 0) =>
            /\ pc[j] = "done" /\ loc[j].status = "error"
            /\ hist[j].calls = hist[j].notFound
            /\ Len(hist[j].waits) = hist[j].notFound

\* A geocoder call is made in this step by job j.
GeocoderCalled(j) ==
    /\ hist'[j].kind = "coords"
    /\ hist[j].kind = "coords"
    /\ hist'[j].calls = hist[j].calls + 1

\* C5: every geocoder call, the first attempt and each retry, directly follows
\* a sleep of more than zero seconds; on a cache hit get_coordinates neither
\* sleeps nor calls the geocoder.
C5_DelayBeforeCall ==
    /\ [][\A j \in Jobs : GeocoderCalled(j) => loc[j].lastSleep > 0]_vars
    /\ [](\A j \in Jobs :
            (hist[j].kind = "coords" /\ hist[j].read = "hit") =>
                hist[j].calls = 0 /\ hist[j].waits = <<>>)

\* A third geocoder call is about to be made, right after the 4 second wait.
C5_Witness ==
    \E j \in Jobs :
        /\ pc[j] = "gc_try" /\ hist[j].calls = 2
        /\ loc[j].lastSleep = 4

\* C6: the key built for a request depends on the request's fields only, and
\* two requests that differ in city, country, point, radius, feature name or tag
\* set get different keys.
C6_KeysDistinct ==
    (kq.ka # "" /\ kq.kb # "") =>
        /\ kq.a = kq.b => kq.ka = kq.kb
        /\ Fields(kq.a) # Fields(kq.b) => kq.ka # kq.kb

\* C7: a cache write that fails, for whatever reason, in geocoding, the network
\* fetch or a feature fetch does not end the job: the caller goes on with the data
\* it has just fetched, as after a write that succeeded.
C7_WriteFailureAbsorbed ==
    \A j \in Jobs :
        hist[j].set = "failed" =>
            /\ loc[j].err # "cache_write"
            /\ Held(j, hist[j].kind) = hist[j].fresh

\* C8: a cache_get made while another job is writing the same key returns
\* nothing or a complete payload, and does not make the reading job fail.
C8_ReadDuringWrite ==
    \A j \in Jobs :
        hist[j].during =>
            /\ hist[j].read \in {"miss", "hit"}
            /\ loc[j].err # "cache_read"
            /\ hist[j].read = "hit" => Held(j, hist[j].kind).t = hist[j].kind

\* C9: the poster file a handler job saves holds the figure that the job's own
\* render_poster call made.
C9_OwnFigureSaved ==
    \A j \in Jobs :
        (IsStep(j) /\ files[j].poster # None) => files[j].poster = Figure(j, FALSE)

\* The street-network fetch of job j has failed: nothing cached, and the
\* provider raised.
GraphFetchFailed(j) ==
    /\ hist[j].kind = "graph"
    /\ hist[j].read = "miss"
    /\ hist[j].calls > 0
    /\ hist[j].fresh = None

\* C10: when the street-network fetch fails the job ends with status error; it
\* emits none of rendering, saving, completed, never calls render_poster and
\* writes neither a poster nor a thumbnail.
C10_GraphFailureIsFatal ==
    \A j \in Jobs :
        GraphFetchFailed(j) =>
            /\ pc[j] = "done"
            /\ loc[j].status = "error"
            /\ IsStep(j) => /\ emitted[j][Len(emitted[j])] = <<"error", 0>>
                            /\ Statuses(j) \cap {"rendering", "saving", "completed"} = {}
            /\ loc[j].renders = 0
            /\ files[j] = NoFiles
            /\ db[j] = 0

\* A handler job whose street-network fetch failed after the "downloading_streets"
\* milestone.
C10_Witness ==
    \E j \in Jobs :
        /\ IsStep(j)
        /\ GraphFetchFailed(j)
        /\ "downloading_streets" \in Statuses(j)
        /\ "error" \in Statuses(j)

\* The parks or the water fetch of job j has failed: nothing cached, and the
\* provider raised.
FeatureFetchFailed(j) ==
    /\ hist[j].kind \in {"parks", "water"}
    /\ hist[j].read = "miss"
    /\ hist[j].calls > 0
    /\ hist[j].fresh = None

\* C11: when the parks or the water fetch fails after the street network was
\* fetched, the layer is None, no cache write is made for it, and the job is
\* not ended by it: it goes on to rendering and saving and, with nothing else
\* failing, ends with status completed and its poster written.
C11_FeatureFailureTolerated ==
    \A j \in Jobs :
        FeatureFetchFailed(j) =>
            /\ loc[j].G # None
            /\ Held(j, hist[j].kind) = None
            /\ hist[j].set = "none"
            /\ loc[j].status = "error" => loc[j].err \in {"render", "save", "thumbnail"}
            /\ (pc[j] = "done" /\ faults = 1) =>
                  /\ loc[j].status = "completed"
                  /\ files[j].poster # None
                  /\ IsStep(j) => {"rendering", "saving", "completed"} \subseteq Statuses(j)

\* A handler job whose water fetch failed and which completed all the same.
C11_Witness ==
    \E j \in Jobs :
        /\ IsStep(j)
        /\ FeatureFetchFailed(j) /\ hist[j].kind = "water"
        /\ pc[j] = "done" /\ loc[j].status = "completed"
        /\ loc[j].water = None /\ files[j].thumb # None

\* The layers that are on the canvas.
DrawnLayers == {rq.drawn[i].layer : i \in 1..Len(rq.drawn)}

\* C12: when reprojecting, rotating or plotting the water or the parks layer
\* raises in render_poster, the render still completes and that layer is not on
\* the canvas.
C12_FailedLayerDropped ==
    rq # None =>
        \A l \in LayerNames :
            (\E op \in LayerOps : <<l, op>> \in rq.failed) =>
                /\ rq.stage # "raised"
                /\ l \notin DrawnLayers

\* C20: every edge is styled by its highway tag, the first element when the
\* tag is a list: an edge tagged [motorway, motorway_link] gets the motorway
\* colour and width, and an edge without a highway tag gets the default tier
\* (road_default and the default width), in render_poster and in the cli's
\* get_edge_colors_by_type / get_edge_widths_by_type.
C20_EdgeTiers ==
    rq # None =>
        \A i \in 1..Len(rq.G) :
            /\ (rq.stage = "done" /\ rq.G[i] = ListTag(<<"motorway", "motorway_link">>)) =>
                   rq.styles[i] = [color |-> "road_motorway", width |-> 12]
            /\ (rq.stage = "done" /\ rq.G[i] = NoTag) =>
                   rq.styles[i] = [color |-> "road_default", width |-> 3]
            /\ (rq.cli # None /\ rq.G[i] = ListTag(<<"motorway", "motorway_link">>)) =>
                   rq.cli.colors[i] = "road_motorway" /\ rq.cli.widths[i] = 12
            /\ (rq.cli # None /\ rq.G[i] = NoTag) =>
                   rq.cli.colors[i] = "road_default" /\ rq.cli.widths[i] = 4

\* C13: a handler job ends with status error only when geocoding failed or the
\* street-network fetch failed (no map URL is among these inputs); a failed
\* cache write, feature fetch, layer render, thumbnail or job-record update
\* does not end it with status error.
C13_OnlyFatalCauses ==
    \A j \in Jobs :
        (IsStep(j) /\ loc[j].status = "error") => loc[j].err \in {"geocode", "fetch_graph"}

\* C14: a job that has ended with status error has written neither a poster
\* nor a thumbnail file.
C14_NoFilesOnError ==
    \A j \in Jobs : loc[j].status = "error" => files[j] = NoFiles

\* The milestones of a handler run, in order.
Milestones ==
    << <<"fetching_data", 5>>, <<"downloading_streets", 15>>,
       <<"downloading_parks", 35>>, <<"downloading_water", 55>>,
       <<"rendering", 70>>, <<"saving", 90>> >>

IsPrefix(s, t) == Len(s) <= Len(t) /\ s = SubSeq(t, 1, Len(s))

IsTerminal(e) == e[1] \in {"completed", "error"}

\* C15: what a handler run has sent to the progress sink is a prefix of the six
\* milestones, with increasing progress values, followed by at most one
\* terminal status: completed(100) after all six, or error.  A run that has
\* ended has sent its terminal status, and it is the last thing sent.
C15_StatusSequence ==
    \A j \in Jobs :
        IsStep(j) =>
            LET e == emitted[j]
                n == Len(e)
                ended == n > 0 /\ IsTerminal(e[n])
                body == IF ended THEN SubSeq(e, 1, n - 1) ELSE e
            IN  /\ IsPrefix(body, Milestones)
                /\ \A a, b \in 1..Len(body) : a < b => body[a][2] < body[b][2]
                /\ (ended /\ e[n][1] = "completed") =>
                       e[n] = <<"completed", 100>> /\ body = Milestones
                /\ pc[j] = "done" <=> ended

\* A handler run that has sent all six milestones and completed(100).
C15_Witness ==
    \E j \in Jobs :
        /\ IsStep(j) /\ pc[j] = "done"
        /\ Len(emitted[j]) = 7
        /\ emitted[j][7] = <<"completed", 100>>

\* What each of the six patterns (a) @lat,lon,NNNm (b) @lat,lon,NNz (c) ll=
\* (d) q= (e) /@lat,lon,... (f) 3d..!4d.. finds in a URL, None when it does not
\* match; a parameter matches when its value is two numbers.
PatternMatches(url) ==
    LET seg(kind) == re_search(url, kind)
        par(key) == parse_qs(url, key)
        m == seg("at_m")
        z == seg("at_z")
        atm == IF m # None THEN Parsed(m.p, <<m.n>>) ELSE None
        atz == IF z # None THEN Parsed(z.p, <<>>) ELSE None
    IN  << atm,
           atz,
           IF par("ll") # None /\ par("ll").t = "pair" THEN Parsed(par("ll").p, <<>>) ELSE None,
           IF par("q") # None /\ par("q").t = "pair" THEN Parsed(par("q").p, <<>>) ELSE None,
           IF atm # None THEN atm ELSE atz,
           IF seg("data") # None THEN Parsed(seg("data").p, <<>>) ELSE None >>

\* The result of the earliest pattern that matches, None when none does.
FirstMatch(url) ==
    LET ms == PatternMatches(url)
        hits == {i \in 1..Len(ms) : ms[i] # None}
    IN  IF hits = {} THEN None ELSE ms[CHOOSE i \in hits : \A h \in hits : i <= h]

UrlParsed == uq # None /\ uq.in.url # None /\ uq.stage # "start"

C17_FailsOnlyWithoutMatch ==
    UrlParsed => (uq.parsed.r = "ValueError" <=> FirstMatch(uq.in.url) = None)

\* The radius that goes into the fetches and the cache keys is fixed.
RadiusFixed == uq # None /\ uq.stage \in {"resolve", "geocode", "fetch", "keyed"}

\* C18: the radius is elevation // 2 only when the URL carries an elevation and
\* the caller gave no distance; a distance the caller gave is the radius of the
\* fetches and of the cache keys.
C18_ExplicitDistanceKept ==
    RadiusFixed =>
        /\ uq.in.distance # <<>> => uq.dist = uq.in.distance[1]
        /\ uq.dist # distance_or_default(uq.in) =>
               /\ uq.in.distance = <<>>
               /\ uq.parsed # None /\ uq.parsed.elevation # <<>>
               /\ uq.dist = uq.parsed.elevation[1] \div 2
        /\ (uq.stage = "keyed" /\ uq.in.distance # <<>>) =>
               uq.key = graph_key(uq.point, uq.in.distance[1])

InRange(p) ==
    /\ p[1] >= -900000 /\ p[1] <= 900000
    /\ p[2] >= -1800000 /\ p[2] <= 1800000

\* C19: the point the pipeline fetches for, from a parsed URL or from lat/lon
\* input, has its latitude in [-90, 90] and its longitude in [-180, 180].
C19_PointInRange ==
    (uq # None /\ uq.stage \in {"fetch", "keyed"}) => InRange(uq.point)

\* ------------------------------------------------------------------ rotation

QuarterTurns == {0, 90, 180, 270, 360, -90, -180, -270}
Centers == {<<0, 0>>, <<502, 1>>, <<-3, 7>>}

\* A render_poster call has projected its layers and is past the rotation.
PastRotate == gq # None /\ gq.stage \in {"plot", "return"}

\* The projected graph and layers of the call, as they were before any rotation.
Projected == project_graph(gq.given[gq.G])
ProjectedLayer(ref) ==
    IF ~Filled(gq.given, ref) THEN <<>>
    ELSE IF (IF ref = gq.parks THEN "parks" ELSE "water") \in gq.bad
         THEN gq.given[ref].geom
         ELSE to_crs(gq.given[ref]).geom

\* The geometry of the layer the call holds under a reference.
HeldGeom(ref) == IF Filled(gq.heap, ref) THEN gq.heap[ref].geom ELSE <<>>

\* C21: rotate_graph about a fixed centre changes no node for the angle 0,
\* returns every node to its position for the angle 360, and a rotation by t
\* followed by one by -t restores the positions; render_poster rotates nothing
\* when rotation is 0 or absent.
C21_RotationRoundTrip ==
    (gq # None /\ gq.l.Gp # 0) =>
        LET N == gq.heap[gq.l.Gp].nodes
        IN  /\ \A c \in Centers \cup (IF gq.center = NoPoint THEN {} ELSE {gq.center}) :
                 /\ rotate_graph(N, 0, c) = N
                 /\ rotate_graph(N, 360, c) = N
                 /\ \A t \in QuarterTurns :
                        rotate_graph(rotate_graph(N, t, c), -t, c) = N
            /\ (PastRotate /\ ~Turns(gq.rotation)) =>
                 /\ gq.heap[gq.l.Gp] = Projected
                 /\ HeldGeom(gq.l.pp) = ProjectedLayer(gq.parks)
                 /\ HeldGeom(gq.l.wp) = ProjectedLayer(gq.water)

\* A quarter turn has moved the nodes, and the opposite turn about the same
\* centre puts them back.
C21_Witness ==
    /\ PastRotate /\ gq.rotation = <<90>>
    /\ gq.heap[gq.l.Gp].nodes # Projected.nodes
    /\ rotate_graph(gq.heap[gq.l.Gp].nodes, -90, gq.center) = Projected.nodes

\* The layers one call has drawn, against the rotation asked for.
DrawnOf(call) == IF call = "main" THEN gq.drawn.main ELSE gq.drawn.thumb
Turned(geom) ==
    IF Turns(gq.rotation)
    THEN rotate_geometry(geom, gq.rotation[1], nodes_mean(Projected.nodes))
    ELSE geom

C29_EdgesRotatedWithNodes ==
    (gq # None /\ gq.stage = "return" /\ Turns(gq.rotation)) =>
        LET d == DrawnOf(gq.call)
        IN  /\ d.nodes = Turned(Projected.nodes)
            /\ d.parks = Turned(ProjectedLayer(gq.parks))
            /\ d.water = Turned(ProjectedLayer(gq.water))
            /\ d.edge[1] = d.nodes[1]
            /\ d.edge[Len(d.edge)] = d.nodes[Len(d.nodes)]

\* ------------------------------------------------------------------ theme, fonts, caption

\* C22: the coordinate caption shows the absolute latitude and longitude to
\* four decimals, with N exactly when the latitude is >= 0 (else S) and E
\* exactly when the longitude is >= 0 (else W), and never holds a minus sign.
C22_CaptionUnsigned ==
    (tq # None /\ tq.stage = "done") =>
        LET lat == tq.point[1]
            lon == tq.point[2]
        IN  /\ tq.caption.lat.sign = "" /\ tq.caption.lon.sign = ""
            /\ tq.caption.lat.digits = format_4f(float_abs(lat)).digits
            /\ tq.caption.lon.digits = format_4f(float_abs(lon)).digits
            /\ tq.caption.lat.letter = (IF float_ge0(lat) THEN "N" ELSE "S")
            /\ tq.caption.lon.letter = (IF float_ge0(lon) THEN "E" ELSE "W")

\* C23: load_theme does not fail when the named theme file is missing, it
\* returns the embedded default theme; and every theme it returns has a fonts
\* entry, the default triple when the theme's definition has none.
C23_ThemeHasFonts ==
    (tq # None /\ tq.stage # "theme") =>
        /\ tq.file.t = "missing" =>
             tq.loaded = Loaded(Theme(ThemeKeys \cup {"fonts"}, get_default_fonts))
        /\ ~tq.loaded.raised =>
             /\ "fonts" \in tq.loaded.theme.keys
             /\ "fonts" \in tq.theme.keys
             /\ "fonts" \notin tq.file.keys => tq.loaded.theme.fonts = get_default_fonts
             /\ "fonts" \in tq.file.keys => tq.loaded.theme.fonts = tq.file.fonts

\* A theme file without a fonts entry has been loaded and has got the default
\* triple.
C23_Witness ==
    /\ tq # None /\ tq.stage = "done"
    /\ tq.file.t = "json" /\ "fonts" \notin tq.file.keys
    /\ tq.loaded.theme.fonts = get_default_fonts
    /\ "edge_width_factor" \in tq.loaded.theme.keys

\* The file find_font_family has chosen for a weight.
FoundFor(w) ==
    IF w = "bold" THEN tq.found.bold
    ELSE IF w = "regular" THEN tq.found.regular
    ELSE tq.found.light

\* C24: within the font folder the file chosen for a weight is one whose
\* suffix match is the most specific; the italic penalty and the length of the
\* name decide only between files of equal specificity.
C24_MostSpecificWins ==
    (tq # None /\ tq.stage \in {"caption", "done"}) =>
        \A w \in Weights :
            \A g \in candidates(tq.folder, w) :
                pattern_points(g, w, tq.variant)
                    <= pattern_points(FoundFor(w), w, tq.variant)

\* ------------------------------------------------------------------ write once

\* The cache file holds a complete payload.
IsPayload(c) == c \notin {Absent, Partial, Torn}

\* Job j enters cache_set in this step.
EntersSet(j) == pc[j] # "set_open" /\ pc'[j] = "set_open"

C26_RecordOnSuccessOnly ==
    [][\A j \in Jobs :
         /\ db'[j] # db[j] =>
               /\ db[j] = 0 /\ db'[j] = 1
               /\ files'[j].poster # None /\ files'[j].thumb # None
               /\ "completed" \notin Statuses(j)
               /\ loc'[j].status = "completed"
         /\ loc'[j].status = "error" => db'[j] = 0]_vars

\* A handler job has written its record and has ended as completed, and
\* another has lost its thumbnail and has ended with an error.
C26_Witness ==
    \E j \in Jobs, o \in Jobs :
        /\ pc[j] = "done" /\ db[j] = 1 /\ "completed" \in Statuses(j)
        /\ pc[o] = "done" /\ loc[o].err = "thumbnail" /\ files[o].poster # None

\* ------------------------------------------------------------------ precedence

\* C30: the handler takes the point from the map URL before explicit lat and
\* lon, and from those before the geocoder: the geocoder is reached only when
\* no URL was given and lat or lon is missing, and a URL that cannot be parsed
\* ends the job with an error, without lat/lon, geocoding or a fetch.
C30_PointPrecedence ==
    uq # None =>
        LET given == uq.in.url # None
            bad == given /\ parse_google_maps_url(uq.in.url).r # "ok"
        IN  /\ uq.stage = "geocode" => (~given /\ Len(uq.in.latlon) < 2)
            /\ uq.stage \in {"fetch", "keyed"} =>
                  uq.point = (IF given THEN parse_google_maps_url(uq.in.url).point
                              ELSE uq.in.latlon)
            /\ (uq.stage \in {"fetch", "keyed"} /\ ~given) => Len(uq.in.latlon) = 2
            /\ (bad /\ uq.stage # "start") =>
                  (uq.stage = "error" /\ uq.point = NoPoint /\ uq.key = "")
            /\ uq.stage = "error" => bad

\* A URL was given together with another explicit point, and the fetch is for
\* the URL's point.
C30_Witness ==
    /\ uq # None /\ uq.stage = "keyed"
    /\ uq.in.url # None /\ uq.in.latlon = Paris
    /\ uq.point = uq.parsed.point /\ uq.point # Paris

\* ------------------------------------------------------------------ edge widths

\* The tiers of the road hierarchy, from the widest down.
TierRank(highway) ==
    IF highway \in {"motorway", "motorway_link"} THEN 1
    ELSE IF highway \in {"trunk", "trunk_link", "primary", "primary_link"} THEN 2
    ELSE IF highway \in {"secondary", "secondary_link"} THEN 3
    ELSE IF highway \in {"tertiary", "tertiary_link"} THEN 4
    ELSE IF highway \in {"residential", "living_street", "unclassified"} THEN 5
    ELSE 6

\* Edge i is of a higher tier than edge j and is drawn wider.
WiderByTier(widths) ==
    \A i \in DOMAIN widths, j \in DOMAIN widths :
        TierRank(highway_class(rq.G[i])) < TierRank(highway_class(rq.G[j]))
            => widths[i] > widths[j]

\* C28: an edge is drawn with its tier's width times the theme's
\* edge_width_factor (1 when the theme has none), a thumbnail with exactly half
\* of that, and the widths strictly decrease from tier to tier: motorway,
\* trunk/primary, secondary, tertiary, residential, everything else.
C28_WidthsByTier ==
    rq # None =>
        /\ rq.stage = "done" =>
              /\ \A i \in DOMAIN rq.edge_widths :
                    rq.edge_widths[i] * (IF rq.is_thumbnail THEN 2 ELSE 1)
                        = 2 * rq.styles[i].width * edge_width_factor(rq.theme)
              /\ WiderByTier(rq.edge_widths)
        /\ rq.cli # None =>
              /\ \A i \in DOMAIN rq.cli.scaled :
                    rq.cli.scaled[i] = 2 * rq.cli.widths[i] * edge_width_factor(rq.theme)
              /\ WiderByTier(rq.cli.scaled)

====
